---- MODULE Spec2Model ----
(***************************************************************************)
(* Prover side of the Present Proof protocol of libvcx:                    *)
(*   src/libvcx/src/disclosed_proof.rs  (handle-keyed API, proof pipeline, *)
(*                                       revocation-state builder)         *)
(*   src/libvcx/src/filters.rs          (presentation-request name filter) *)
(*   src/libvcx/src/aries/mod.rs        (Alice/Faber callers)              *)
(*                                                                         *)
(* Option<T> is modelled as a sequence of length 0 (None) or 1 (Some(v)).  *)
(***************************************************************************)
EXTENDS Integers, Sequences, FiniteSets, TLC

\* ------------------------------------------------------------------ bounds
\* Ledger time runs over 0..MaxTime (u64 seconds in the code).
MaxTime == 2
\* At most MaxInbox messages wait in the agency for one Prover.
MaxInbox == 2
\* the longest credentials_identifiers vector handed to build_requested_credentials_json
MaxCreds == 2
\* the longest array of presentation requests handed to the filter
MaxRequests == 2

\* ------------------------------------------------------------------ Option
None == << >>
Some(v) == << v >>
IsSome(o) == Len(o) = 1
IsNone(o) == Len(o) = 0
Unwrap(o) == o[1]
UnwrapOr(o, d) == IF IsSome(o) THEN o[1] ELSE d
Opt(S) == {None} \cup {Some(v) : v \in S}

\* ------------------------------------------------------------ data model
Times == 0..MaxTime
RevRegIds == {"rev1", "rev2"}
CredRevIds == {"cr1"}
TailsFiles == {"tails"}

\* NonRevokedInterval { from: Option<u64>, to: Option<u64> }
NonRevokedInterval == [from : Opt(Times), to : Opt(Times)]

\* The witness strings the crypto engine returns.  op records which primitive
\* produced the string and at the delta timestamp it was produced for;
\* "nojson" is a returned string that serde_json cannot parse.
WitnessOps == {"create", "update", "nojson"}
WitnessValues == [op : WitnessOps, at : Times]

\* RevState { timestamp, value } and RevRegCache { rev_state: Option<RevState> }
RevState == [timestamp : Times, value : WitnessValues]
\* the cache also holds the second credential of a registry
CachedCredRevIds == CredRevIds \cup {"cr2"}
CacheKeys == RevRegIds \X CachedCredRevIds
EmptyCache == [k \in CacheKeys |-> None]

get_rev_reg_cache(c, rev_reg_id, cred_rev_id) == c[<<rev_reg_id, cred_rev_id>>]
set_rev_reg_cache(c, rev_reg_id, cred_rev_id, rev_state) ==
    [c EXCEPT ![<<rev_reg_id, cred_rev_id>>] = Some(rev_state)]

\* The fields of CredInfoProver that build_rev_states_json reads and writes.
CredInfoProver ==
    [rev_reg_id : Opt(RevRegIds), cred_rev_id : Opt(CredRevIds),
     tails_file : Opt(TailsFiles), revocation_interval : Opt(NonRevokedInterval),
     timestamp : Opt(Times)]

\* What the ledger and the crypto engine answer during one loop iteration:
\* the timestamp get_rev_reg_delta_json returns, and the call that fails.
FailPoints == {"none", "get_rev_reg_def_json", "get_rev_reg_delta_json", "crypto", "nojson"}
LedgerAnswers == [timestamp : Times, fail : FailPoints]

\* ------------------------------------------- build_rev_states_json, the body
\* line 117-118
IntervalFrom(cred_info) ==
    IF IsSome(cred_info.revocation_interval)
    THEN Unwrap(cred_info.revocation_interval).from ELSE None
IntervalTo(cred_info) ==
    IF IsSome(cred_info.revocation_interval)
    THEN Unwrap(cred_info.revocation_interval).to ELSE None

\* line 114-115: all of rev_reg_id, cred_rev_id, tails_file are Some
HasRevocationData(cred_info) ==
    IsSome(cred_info.rev_reg_id) /\ IsSome(cred_info.cred_rev_id) /\ IsSome(cred_info.tails_file)

\* the cache key of a credential that has all three
KeyOf(cred_info) == << Unwrap(cred_info.rev_reg_id), Unwrap(cred_info.cred_rev_id) >>

\* line 124-125 with the upper end of the window excluded
CachedStateInIntervalStrictTo(cached_rev_state, from, to) ==
    /\ cached_rev_state.timestamp >= UnwrapOr(from, 0)
    /\ cached_rev_state.timestamp < to

\* line 124-125
CachedStateInInterval(cached_rev_state, from, to) ==
    /\ cached_rev_state.timestamp >= UnwrapOr(from, 0)
    /\ cached_rev_state.timestamp <= to

\* line 128-133 with the lower bound kept only when `from` is past the
\* cached timestamp
AdjustedFromStrict(from, cached_rev_state) ==
    IF IsSome(from) /\ Unwrap(from) > cached_rev_state.timestamp
    THEN Some(cached_rev_state.timestamp) ELSE None

\* line 128-133
AdjustedFrom(from, cached_rev_state) ==
    IF IsSome(from) /\ Unwrap(from) >= cached_rev_state.timestamp
    THEN Some(cached_rev_state.timestamp) ELSE None

\* the write-back of the update arm done whatever the timestamps are, as in
\* the create arm
WriteBackAlways(timestamp, cached_rev_state) == TRUE

\* line 151
WriteBack(timestamp, cached_rev_state) == timestamp > cached_rev_state.timestamp

\* The arms as section 4.D words them: a cached state is updated whenever it
\* is not reused, whether or not the interval has a `to`.
BranchCacheFirst(cache_entry, from, to) ==
    IF IsSome(cache_entry)
    THEN IF IsSome(to) /\ CachedStateInInterval(Unwrap(cache_entry), from, Unwrap(to))
         THEN "reuse" ELSE "update"
    ELSE "create"

\* The arms with a cached state that is newer than the window sent to the
\* create arm, as scenario S6 of the design document words it.
BranchFreshWhenNewer(cache_entry, from, to) ==
    IF IsSome(cache_entry) /\ IsSome(to)
    THEN IF CachedStateInInterval(Unwrap(cache_entry), from, Unwrap(to)) THEN "reuse"
         ELSE IF Unwrap(cache_entry).timestamp > Unwrap(to) THEN "create"
         ELSE "update"
    ELSE "create"

\* line 122-123, 163: which arm of the if/else computes the state
Branch(cache_entry, from, to) ==
    IF IsSome(cache_entry) /\ IsSome(to)
    THEN IF CachedStateInInterval(Unwrap(cache_entry), from, Unwrap(to))
         THEN "reuse" ELSE "update"
    ELSE "create"

\* the cache after an arm whose create side leaves the cache alone
CacheWrittenByUpdateOnly(branch, cache, rev_reg_id, cred_rev_id, entry, new_cache) ==
    IF branch = "update" /\ WriteBack(new_cache.timestamp, Unwrap(entry))
    THEN set_rev_reg_cache(cache, rev_reg_id, cred_rev_id, new_cache)
    ELSE cache

\* line 151-159 and 179-185: the cache after the arm has its new state
CacheWritten(branch, cache, rev_reg_id, cred_rev_id, entry, new_cache) ==
    IF branch = "update"
    THEN IF WriteBack(new_cache.timestamp, Unwrap(entry))
         THEN set_rev_reg_cache(cache, rev_reg_id, cred_rev_id, new_cache)
         ELSE cache
    ELSE IF branch = "create"
    THEN set_rev_reg_cache(cache, rev_reg_id, cred_rev_id, new_cache)
    ELSE cache

\* The calls an arm issues before `fail` stops it, in program order.
CallsOf(branch, fail) ==
    LET crypto == IF branch = "update" THEN "libindy_prover_update_revocation_state"
                  ELSE "libindy_prover_create_revocation_state"
    IN  IF branch = "reuse" THEN << >>
        ELSE IF fail = "get_rev_reg_def_json" THEN << "get_rev_reg_def_json" >>
        ELSE IF fail = "get_rev_reg_delta_json"
             THEN << "get_rev_reg_def_json", "get_rev_reg_delta_json" >>
        ELSE << "get_rev_reg_def_json", "get_rev_reg_delta_json", crypto >>

\* A variant of AlreadyProcessed that remembers no registry.
NeverProcessed(rtn, rev_reg_id) == FALSE

\* line 116: the registry already has its entry in the output of this call
AlreadyProcessed(rtn, rev_reg_id) == IsSome(rtn[rev_reg_id])

\* A variant of Stamp that leaves the credential as it came.
StampKept(cred_info, timestamps, rev_reg_id) == cred_info.timestamp

\* line 202-205: a credential not stamped by the block above takes the
\* timestamp remembered for its registry.
Stamp(cred_info, timestamps, rev_reg_id) ==
    IF IsNone(cred_info.timestamp) THEN timestamps[rev_reg_id] ELSE cred_info.timestamp

\* One iteration of the loop of build_rev_states_json (lines 113-207) over
\* cred_info, with the cache, rtn and timestamps as they stand.
RevStatesIteration(cred_info, cache, rtn, timestamps, ledger) ==
    LET skip == [branch |-> "skip", err |-> "", cache |-> cache, rtn |-> rtn,
                 timestamps |-> timestamps, timestamp |-> cred_info.timestamp,
                 calls |-> << >>, delta_from |-> None, delta_to |-> None]
    IN
    IF ~HasRevocationData(cred_info) THEN skip
    ELSE
    LET rev_reg_id == Unwrap(cred_info.rev_reg_id)
        cred_rev_id == Unwrap(cred_info.cred_rev_id)
    IN
    IF AlreadyProcessed(rtn, rev_reg_id)
    THEN \* line 203-205
         [skip EXCEPT !.branch = "memo",
                      !.timestamp = Stamp(cred_info, timestamps, rev_reg_id)]
    ELSE
    LET from == IntervalFrom(cred_info)
        to == IntervalTo(cred_info)
        entry == get_rev_reg_cache(cache, rev_reg_id, cred_rev_id)
        branch == Branch(entry, from, to)
        calls == CallsOf(branch, ledger.fail)
        \* the `?` early returns of lines 135, 141, 149, 164, 170, 177
        early == branch # "reuse" /\
                 ledger.fail \in {"get_rev_reg_def_json", "get_rev_reg_delta_json", "crypto"}
        timestamp == IF branch = "reuse" THEN Unwrap(entry).timestamp ELSE ledger.timestamp
        rev_state_json ==
            IF branch = "reuse" THEN Unwrap(entry).value
            ELSE [op |-> IF ledger.fail = "nojson" THEN "nojson" ELSE branch,
                  at |-> timestamp]
        new_cache == [timestamp |-> timestamp, value |-> rev_state_json]
        cache1 == CacheWritten(branch, cache, rev_reg_id, cred_rev_id, entry, new_cache)
        delta_from == IF branch = "update" THEN AdjustedFrom(from, Unwrap(entry)) ELSE None
        delta_to == to
        issued == Len(calls) >= 2
    IN
    IF early
    THEN [skip EXCEPT !.branch = branch, !.err = "LibindyError", !.calls = calls,
                      !.delta_from = IF issued THEN delta_from ELSE None,
                      !.delta_to = IF issued THEN delta_to ELSE None]
    ELSE IF rev_state_json.op = "nojson"
    THEN \* line 190-191: the cache was written before the parse failed
         [skip EXCEPT !.branch = branch, !.err = "InvalidJson", !.calls = calls,
                      !.cache = cache1,
                      !.delta_from = IF issued THEN delta_from ELSE None,
                      !.delta_to = IF issued THEN delta_to ELSE None]
    ELSE \* line 195-199
         [branch |-> branch, err |-> "", cache |-> cache1,
          rtn |-> [rtn EXCEPT ![rev_reg_id] =
                      Some([timestamp |-> timestamp, value |-> rev_state_json])],
          timestamps |-> [timestamps EXCEPT ![rev_reg_id] = Some(timestamp)],
          timestamp |-> Some(timestamp),
          calls |-> calls,
          delta_from |-> IF issued THEN delta_from ELSE None,
          delta_to |-> IF issued THEN delta_to ELSE None]

\* ---------------------------------------------- build_rev_states_json, whole
\* The loop of lines 113-207 over the whole vector, from element i on; ledger
\* gives, per registry, what the ledger and the crypto engine answer when the
\* registry is queried (each registry is queried at most once per call).
\* acc = [err, cache, rtn, timestamps, creds]; the first failure returns.
RECURSIVE RevStatesLoop(_, _, _, _)
RevStatesLoop(creds, i, acc, ledger) ==
    IF i > Len(creds) \/ acc.err # "" THEN acc
    ELSE LET cred_info == creds[i]
             answer == IF IsSome(cred_info.rev_reg_id)
                       THEN ledger[Unwrap(cred_info.rev_reg_id)]
                       ELSE [timestamp |-> 0, fail |-> "none"]
             out == RevStatesIteration(cred_info, acc.cache, acc.rtn, acc.timestamps, answer)
         IN RevStatesLoop(creds, i + 1,
                [err |-> out.err, cache |-> out.cache, rtn |-> out.rtn,
                 timestamps |-> out.timestamps,
                 creds |-> [acc.creds EXCEPT ![i].timestamp = out.timestamp]],
                ledger)

\* line 109-210
build_rev_states_json(credentials_identifiers, cache, ledger) ==
    RevStatesLoop(credentials_identifiers, 1,
        [err |-> "", cache |-> cache, rtn |-> [r \in RevRegIds |-> None],
         timestamps |-> [r \in RevRegIds |-> None], creds |-> credentials_identifiers],
        ledger)

\* ------------------------------------------------------ the proof pipeline
\* The keys of requested_attributes / requested_predicates and of the attrs
\* object of the selected credentials, in the order serde_json's map (a
\* BTreeMap) iterates them.
AttrKeyOrder == << "address1_1", "height_1", "zip_2" >>
AttrKeys == { AttrKeyOrder[i] : i \in 1..Len(AttrKeyOrder) }

\* A variant of get_revocation_interval that asks requested_predicates first.
get_revocation_interval_predicates_first(attr_name, proof_req) ==
    IF attr_name \in DOMAIN proof_req.requested_predicates
    THEN [err |-> "",
          interval |-> IF IsSome(proof_req.requested_predicates[attr_name].non_revoked)
                       THEN proof_req.requested_predicates[attr_name].non_revoked
                       ELSE proof_req.non_revoked]
    ELSE IF attr_name \in DOMAIN proof_req.requested_attributes
    THEN [err |-> "",
          interval |-> IF IsSome(proof_req.requested_attributes[attr_name].non_revoked)
                       THEN proof_req.requested_attributes[attr_name].non_revoked
                       ELSE proof_req.non_revoked]
    ELSE [err |-> "InvalidProofCredentialData", interval |-> None]

\* line 98-107
get_revocation_interval(attr_name, proof_req) ==
    IF attr_name \in DOMAIN proof_req.requested_attributes
    THEN [err |-> "",
          interval |-> IF IsSome(proof_req.requested_attributes[attr_name].non_revoked)
                       THEN proof_req.requested_attributes[attr_name].non_revoked
                       ELSE proof_req.non_revoked]
    ELSE IF attr_name \in DOMAIN proof_req.requested_predicates
    THEN [err |-> "",
          interval |-> IF IsSome(proof_req.requested_predicates[attr_name].non_revoked)
                       THEN proof_req.requested_predicates[attr_name].non_revoked
                       ELSE proof_req.non_revoked]
    ELSE [err |-> "InvalidProofCredentialData", interval |-> None]

\* A variant of IdentifiersLoop that passes over what it cannot use.
RECURSIVE IdentifiersLoopSkipping(_, _, _, _)
IdentifiersLoopSkipping(attrs, proof_req, i, acc) ==
    IF i > Len(AttrKeyOrder) THEN acc
    ELSE LET requested_attr == AttrKeyOrder[i] IN
         IF requested_attr \notin DOMAIN attrs
         THEN IdentifiersLoopSkipping(attrs, proof_req, i + 1, acc)
         ELSE LET value == attrs[requested_attr]
                  interval == get_revocation_interval(requested_attr, proof_req)
              IN IF /\ IsSome(value.referent) /\ IsSome(value.schema_id)
                    /\ IsSome(value.cred_def_id) /\ interval.err = ""
                 THEN IdentifiersLoopSkipping(attrs, proof_req, i + 1,
                        [acc EXCEPT !.rtn = Append(@,
                           [requested_attr |-> requested_attr,
                            referent |-> Unwrap(value.referent),
                            schema_id |-> Unwrap(value.schema_id),
                            cred_def_id |-> Unwrap(value.cred_def_id),
                            revocation_interval |-> interval.interval,
                            timestamp |-> None,
                            rev_reg_id |-> value.rev_reg_id,
                            cred_rev_id |-> value.cred_rev_id,
                            tails_file |-> value.tails_file])])
                 ELSE IdentifiersLoopSkipping(attrs, proof_req, i + 1, acc)

\* line 61-92: the loop over the attrs object, from key i of AttrKeyOrder on
RECURSIVE IdentifiersLoop(_, _, _, _)
IdentifiersLoop(attrs, proof_req, i, acc) ==
    IF i > Len(AttrKeyOrder) \/ acc.err # "" THEN acc
    ELSE LET requested_attr == AttrKeyOrder[i] IN
         IF requested_attr \notin DOMAIN attrs
         THEN IdentifiersLoop(attrs, proof_req, i + 1, acc)
         ELSE LET value == attrs[requested_attr]
                  interval == get_revocation_interval(requested_attr, proof_req)
              IN IF IsSome(value.referent) /\ IsSome(value.schema_id) /\ IsSome(value.cred_def_id)
                 THEN IF interval.err # ""
                      THEN [err |-> interval.err, rtn |-> << >>]
                      ELSE IdentifiersLoop(attrs, proof_req, i + 1,
                             [acc EXCEPT !.rtn = Append(@,
                                [requested_attr |-> requested_attr,
                                 referent |-> Unwrap(value.referent),
                                 schema_id |-> Unwrap(value.schema_id),
                                 cred_def_id |-> Unwrap(value.cred_def_id),
                                 revocation_interval |-> interval.interval,
                                 timestamp |-> None,
                                 rev_reg_id |-> value.rev_reg_id,
                                 cred_rev_id |-> value.cred_rev_id,
                                 tails_file |-> value.tails_file])])
                 ELSE [err |-> "InvalidProofCredentialData", rtn |-> << >>]

\* line 54-96.  credentials = [json, attrs]: whether the string parses, and
\* the object under "attrs" (the empty function when absent or no object).
credential_def_identifiers(credentials, proof_req) ==
    IF ~credentials.json THEN [err |-> "InvalidJson", rtn |-> << >>]
    ELSE IdentifiersLoop(credentials.attrs, proof_req, 1, [err |-> "", rtn |-> << >>])

\* A variant of RequestedEntries whose entries carry no timestamp.
RequestedEntriesUnstamped(credentials_identifiers, requested, revealed) ==
    LET keys == { credentials_identifiers[i].requested_attr : i \in
                    { j \in 1..Len(credentials_identifiers) :
                        credentials_identifiers[j].requested_attr \in DOMAIN requested } }
        some_of(k) == CHOOSE i \in 1..Len(credentials_identifiers) :
                         credentials_identifiers[i].requested_attr = k
    IN [k \in keys |->
          [cred_id |-> credentials_identifiers[some_of(k)].referent,
           revealed |-> revealed,
           timestamp |-> None]]

\* line 221-228 and 230-237: the entries of one of the two maps
RequestedEntries(credentials_identifiers, requested, revealed) ==
    LET idx == { i \in 1..Len(credentials_identifiers) :
                    credentials_identifiers[i].requested_attr \in DOMAIN requested }
        keys == { credentials_identifiers[i].requested_attr : i \in idx }
        last_of(k) == CHOOSE i \in idx :
                         /\ credentials_identifiers[i].requested_attr = k
                         /\ \A j \in idx : credentials_identifiers[j].requested_attr = k => j <= i
    IN [k \in keys |->
          [cred_id |-> credentials_identifiers[last_of(k)].referent,
           revealed |-> revealed,
           timestamp |-> credentials_identifiers[last_of(k)].timestamp]]

\* A variant of build_requested_credentials_json that puts a record among the
\* predicates only when it is not among the attributes.
build_requested_credentials_json_exclusive(credentials_identifiers, self_attested_attrs, proof_req) ==
    IF ~self_attested_attrs.json
    THEN [err |-> "InvalidJson", rtn |-> << >>]
    ELSE [err |-> "",
          rtn |-> [self_attested_attributes |-> self_attested_attrs.value,
                   requested_attributes |->
                       RequestedEntries(credentials_identifiers,
                                        proof_req.requested_attributes, Some(TRUE)),
                   requested_predicates |->
                       RequestedEntries(credentials_identifiers,
                           [k \in DOMAIN proof_req.requested_predicates
                                  \ DOMAIN proof_req.requested_attributes |->
                              proof_req.requested_predicates[k]], None)]]

\* line 212-245.  self_attested_attrs = [json, value]
build_requested_credentials_json(credentials_identifiers, self_attested_attrs, proof_req) ==
    IF ~self_attested_attrs.json
    THEN [err |-> "InvalidJson", rtn |-> << >>]
    ELSE [err |-> "",
          rtn |-> [self_attested_attributes |-> self_attested_attrs.value,
                   requested_attributes |->
                       RequestedEntries(credentials_identifiers,
                                        proof_req.requested_attributes, Some(TRUE)),
                   requested_predicates |->
                       RequestedEntries(credentials_identifiers,
                                        proof_req.requested_predicates, None)]]

\* What the collaborators answer during one generate_indy_proof: per registry
\* the ledger answer, and the later step that fails.
PipelineFails == {"none", "schemas", "cred_defs", "create_proof"}

\* line 261-277: the calls of generate_indy_proof in program order
PipelineSteps ==
    << "credential_def_identifiers", "build_rev_states_json",
       "build_requested_credentials_json", "build_schemas_json_prover",
       "build_cred_defs_json_prover", "libindy_prover_create_proof" >>

\* u64::to_string: the decimal digits of n
DecimalDigits == << "0", "1", "2", "3", "4", "5", "6", "7", "8", "9" >>
RECURSIVE Decimal(_)
Decimal(n) ==
    IF n < 10 THEN DecimalDigits[n + 1]
    ELSE Decimal(n \div 10) \o DecimalDigits[(n % 10) + 1]

\* line 197, 209: the JSON the builder returns, an object per processed
\* registry whose one key is the timestamp as a string
RevStatesJson(rtn) ==
    [r \in { q \in DOMAIN rtn : IsSome(rtn[q]) } |->
        [k \in { Decimal(Unwrap(rtn[r]).timestamp) } |-> Unwrap(rtn[r]).value]]

\* A variant of generate_indy_proof that goes on to the crypto call when the
\* requested credentials could not be assembled.
generate_indy_proof_unchecked(credentials, self_attested_attrs, proof_request, cache, ledger, fail) ==
    LET credentials_identifiers == credential_def_identifiers(credentials, proof_request)
        revoc == build_rev_states_json(credentials_identifiers.rtn, cache, ledger)
        requested == build_requested_credentials_json(revoc.creds, self_attested_attrs,
                                                      proof_request)
        stopped(n, err, c) == [err |-> err, proof |-> None, cache |-> c,
                               steps |-> SubSeq(PipelineSteps, 1, n), passed |-> None]
        passed == Some([requested_credentials |-> requested.rtn,
                        revoc_states_json |-> RevStatesJson(revoc.rtn)])
    IN  IF credentials_identifiers.err # "" THEN stopped(1, credentials_identifiers.err, cache)
        ELSE IF revoc.err # "" THEN stopped(2, revoc.err, revoc.cache)
        ELSE IF fail = "schemas" THEN stopped(4, "InvalidSchema", revoc.cache)
        ELSE IF fail = "cred_defs" THEN stopped(5, "InvalidProofCredentialData", revoc.cache)
        ELSE IF fail = "create_proof"
        THEN [err |-> "LibindyError", proof |-> None, cache |-> revoc.cache,
              steps |-> PipelineSteps, passed |-> passed]
        ELSE [err |-> "", proof |-> Some("proof"), cache |-> revoc.cache,
              steps |-> PipelineSteps, passed |-> passed]

\* line 247-278: the steps in order, each `?` returning the first error.
\* The result carries the cache as the revocation-state builder left it, the
\* calls made, and what was passed to libindy_prover_create_proof.
generate_indy_proof(credentials, self_attested_attrs, proof_request, cache, ledger, fail) ==
    LET credentials_identifiers == credential_def_identifiers(credentials, proof_request)
        revoc == build_rev_states_json(credentials_identifiers.rtn, cache, ledger)
        requested == build_requested_credentials_json(revoc.creds, self_attested_attrs,
                                                      proof_request)
        stopped(n, err, c) == [err |-> err, proof |-> None, cache |-> c,
                               steps |-> SubSeq(PipelineSteps, 1, n), passed |-> None]
        passed == Some([requested_credentials |-> requested.rtn,
                        revoc_states_json |-> RevStatesJson(revoc.rtn)])
    IN  IF credentials_identifiers.err # "" THEN stopped(1, credentials_identifiers.err, cache)
        ELSE IF revoc.err # "" THEN stopped(2, revoc.err, revoc.cache)
        ELSE IF requested.err # "" THEN stopped(3, requested.err, revoc.cache)
        ELSE IF fail = "schemas" THEN stopped(4, "InvalidSchema", revoc.cache)
        ELSE IF fail = "cred_defs" THEN stopped(5, "InvalidProofCredentialData", revoc.cache)
        ELSE IF fail = "create_proof"
        THEN [err |-> "LibindyError", proof |-> None, cache |-> revoc.cache,
              steps |-> PipelineSteps, passed |-> passed]
        ELSE [err |-> "", proof |-> Some("proof"), cache |-> revoc.cache,
              steps |-> PipelineSteps, passed |-> passed]

\* ------------------------------------------------------------- the Prover
\* v3::handlers::proof_presentation::prover::Prover (imported at line 32) is
\* not among the sources; it is modelled from the design document, sections
\* 3, 4.I, 6 and 7.
ProverStates == {"PresentationRequestReceived", "PresentationPrepared",
                 "PresentationSent", "Finished", "Declined"}
Statuses == {"Undefined", "Success", "Failed", "Declined"}
SourceIds == {"degree"}

\* A2A messages by @type; "Malformed" is a string that does not decode.
A2AKinds == {"Ack", "ProblemReport", "PresentationRequest", "Presentation", "Other"}

\* The presentation request a Prover is created from (its decoded attachment).
TheProofRequest ==
    [requested_attributes |->
        [k \in {"address1_1", "zip_2"} |->
            [non_revoked |-> IF k = "address1_1"
                             THEN Some([from |-> Some(1), to |-> Some(MaxTime)])
                             ELSE None]],
     requested_predicates |-> [k \in {} |-> [non_revoked |-> None]],
     non_revoked |-> Some([from |-> None, to |-> Some(1)])]

\* Prover::create: set_request on a new machine
Prover_create(source_id) ==
    [source_id |-> source_id, state |-> "PresentationRequestReceived",
     status |-> "Undefined", proof |-> None, request |-> TheProofRequest]

\* Prover::state, section 6
Prover_state(prover) ==
    CASE prover.state = "PresentationRequestReceived" -> 3
      [] prover.state = "PresentationPrepared" -> 3
      [] prover.state = "PresentationSent" -> 2
      [] prover.state = "Finished" -> 4
      [] prover.state = "Declined" -> 0

\* Status::code, section 6
Status_code(status) ==
    CASE status = "Undefined" -> 0
      [] status = "Success" -> 1
      [] status = "Failed" -> 2
      [] status = "Declined" -> 3

\* Prover::presentation_status
Prover_presentation_status(prover) == Status_code(prover.status)

\* Prover::generate_presentation: RequestReceived, proof built -> Prepared;
\* a failure of the pipeline leaves the machine where it was.
Prover_generate_presentation(prover, indy_proof) ==
    IF prover.state # "PresentationRequestReceived"
    THEN [err |-> "InvalidState", prover |-> prover]
    ELSE IF indy_proof.err # ""
    THEN [err |-> indy_proof.err, prover |-> prover]
    ELSE [err |-> "",
          prover |-> [prover EXCEPT !.state = "PresentationPrepared",
                                    !.proof = indy_proof.proof]]

\* Prover::send_presentation: only in PresentationPrepared; a failed
\* transmission leaves the machine in PresentationPrepared.
Prover_send_presentation(prover, delivered) ==
    IF prover.state # "PresentationPrepared"
    THEN [err |-> "ActionNotSupported", prover |-> prover, sent |-> << >>]
    ELSE IF ~delivered
    THEN [err |-> "PostMessageFailed", prover |-> prover, sent |-> << >>]
    ELSE [err |-> "", prover |-> [prover EXCEPT !.state = "PresentationSent"],
          sent |-> << "Presentation" >>]

\* Prover::decline_presentation_request: exactly one of reason and proposal
\* (section 6), and only in RequestReceived (section 4.I).
Prover_decline_presentation_request(prover, reason, proposal) ==
    LET same == [err |-> "", prover |-> prover, sent |-> << >>] IN
    IF IsSome(reason) = IsSome(proposal)
    THEN [same EXCEPT !.err = "InvalidOption"]
    ELSE IF prover.state # "PresentationRequestReceived"
    THEN [same EXCEPT !.err = "InvalidState"]
    ELSE [err |-> "",
          prover |-> [prover EXCEPT !.state = "Declined", !.status = "Declined"],
          sent |-> IF IsSome(reason) THEN << "ProblemReport" >>
                   ELSE << "PresentationProposal" >>]

\* The inbound event of section 4.I: only PresentationSent reacts.
Prover_step(prover, kind) ==
    IF prover.state = "PresentationSent" /\ kind = "Ack"
    THEN [prover EXCEPT !.state = "Finished", !.status = "Success"]
    ELSE IF prover.state = "PresentationSent" /\ kind = "ProblemReport"
    THEN [prover EXCEPT !.state = "Finished", !.status = "Failed"]
    ELSE prover

\* Polling: the pending messages of the thread are fed in arrival order up
\* to and including the first that makes the machine terminal; the fed
\* messages are consumed.  A machine outside PresentationSent has no inbound
\* transition and leaves the messages where they are.
RECURSIVE Prover_poll(_, _)
Prover_poll(prover, pending) ==
    IF prover.state # "PresentationSent" \/ pending = << >>
    THEN [prover |-> prover, pending |-> pending]
    ELSE Prover_poll(Prover_step(prover, Head(pending)), Tail(pending))

\* Prover::update_state(message, connection)
Prover_update_state(prover, message, pending, downloaded) ==
    IF IsSome(message)
    THEN IF Unwrap(message) = "Malformed"
         THEN [err |-> "InvalidJson", prover |-> prover, pending |-> pending]
         ELSE [err |-> "", prover |-> Prover_step(prover, Unwrap(message)),
               pending |-> pending]
    ELSE IF ~downloaded
    THEN [err |-> "PostMessageFailed", prover |-> prover, pending |-> pending]
    ELSE [err |-> ""] @@ Prover_poll(prover, pending)

\* ------------------------------------------------------------------ state
VARIABLES
    cache,      \* the process-wide revocation-state cache (utils::libindy::cache)
    rs,         \* the running build_rev_states_json call: position, rtn, timestamps
    it,         \* the loop iteration that ran last: its cred_info, before and after
    HANDLE_MAP, \* line 43-45: handle -> Option<Prover>
    inbox,      \* per handle, the messages waiting in the agency for its thread
    outbox,     \* per handle, the messages its Prover has transmitted
    last,       \* the API call that returned last: arguments, result, Prover before
    threads,    \* per handle, a build_rev_states_json call running on its own thread
    resolution, \* the _get_revocation_interval call made last: arguments, result
    identifiers,\* the credential_def_identifiers call made last: arguments, result
    requested,  \* the build_requested_credentials_json call made last
    filtered,   \* the filter_proof_requests_by_name calls made last
    pipeline,   \* the generate_indy_proof call made last: arguments, result
    built       \* the whole build_rev_states_json call made last: arguments, result

vars == << cache, rs, it, HANDLE_MAP, inbox, outbox, last, threads, resolution,
          identifiers, requested, filtered, pipeline, built >>
revVars == << cache, rs, it >>
proverVars == << HANDLE_MAP, inbox, outbox, last >>
pureVars == << identifiers, requested, filtered, pipeline, built >>
callVars == << threads, resolution, pureVars >>

\* The handles ObjectCache::add hands out (random non-zero u32 in the code).
Handles == {1, 2}

\* The credentials a caller hands to build_rev_states_json.  The interval of a
\* credential that lacks one of the three revocation fields is never read
\* (line 117 is inside the `if let` of line 114), so those carry none.
CompleteCreds ==
    { [rev_reg_id |-> Some(r), cred_rev_id |-> Some(c), tails_file |-> Some(t),
       revocation_interval |-> i, timestamp |-> None] :
         r \in RevRegIds, c \in CredRevIds, t \in TailsFiles, i \in Opt(NonRevokedInterval) }
IncompleteCreds ==
    { cr \in [rev_reg_id : Opt({"rev1"}), cred_rev_id : Opt(CredRevIds),
              tails_file : Opt(TailsFiles), revocation_interval : {None},
              timestamp : {None}] : ~HasRevocationData(cr) }
CredInputs == CompleteCreds \cup IncompleteCreds

NoIteration ==
    [cred_info |-> [rev_reg_id |-> None, cred_rev_id |-> None, tails_file |-> None,
                    revocation_interval |-> None, timestamp |-> None],
     entry |-> None, branch |-> "", err |-> "", timestamp |-> None, calls |-> << >>,
     delta_from |-> None, delta_to |-> None]

EmptyRtn == [r \in RevRegIds |-> None]

\* rs.reused, rs.called and rs.written log, for the running call, the cache
\* keys whose state was taken from the cache as it is, the keys for which a
\* ledger or crypto call was issued, and the keys for which the call ran
\* set_rev_reg_cache.
IdleCall == [pc |-> "idle", rtn |-> EmptyRtn, timestamps |-> EmptyRtn, result |-> "",
             reused |-> {}, called |-> {}, written |-> {}]

\* A thread that runs no build_rev_states_json call: nothing read from the cache.
IdleThread == [pc |-> "idle", cred_info |-> NoIteration.cred_info, entry |-> None]

\* No _get_revocation_interval call was made.
NoResolution ==
    [pc |-> "none", attr_name |-> "",
     proof_req |-> [requested_attributes |-> << >>, requested_predicates |-> << >>,
                    non_revoked |-> None],
     out |-> [err |-> "", interval |-> None]]

\* None of the pure functions of the proof pipeline or of the filter was called.
NoPureCall == [pc |-> "none"]

NoCall == [op |-> "", handle |-> 0, result |-> "", code |-> 0, before |-> None,
           message |-> None, sent |-> << >>, reason |-> None, proposal |-> None,
           data |-> None, polled |-> << >>]

Init ==
    /\ cache = EmptyCache
    /\ rs = IdleCall
    /\ it = NoIteration
    /\ HANDLE_MAP = [h \in Handles |-> None]
    /\ inbox = [h \in Handles |-> << >>]
    /\ outbox = [h \in Handles |-> << >>]
    /\ last = NoCall
    /\ threads = [h \in Handles |-> IdleThread]
    /\ resolution = NoResolution
    /\ pipeline = NoPureCall
    /\ built = NoPureCall
    /\ identifiers = NoPureCall
    /\ requested = NoPureCall
    /\ filtered = NoPureCall

InitRevStates == Init

\* line 109-111: the call starts with rtn = {} and an empty timestamps map
build_rev_states_json_enter ==
    /\ rs.pc \in {"idle", "returned", "failed"}
    /\ rs' = [IdleCall EXCEPT !.pc = "loop"]
    /\ it' = NoIteration
    /\ UNCHANGED << cache, proverVars, callVars >>

\* line 113-206: the loop body runs for the next element of the vector
build_rev_states_json_iteration(cred_info, ledger) ==
    /\ rs.pc = "loop"
    /\ LET out == RevStatesIteration(cred_info, cache, rs.rtn, rs.timestamps, ledger)
           entry == IF HasRevocationData(cred_info) THEN cache[KeyOf(cred_info)] ELSE None
       IN /\ cache' = out.cache
          /\ rs' = [pc |-> IF out.err = "" THEN "iterated" ELSE "failed",
                    rtn |-> out.rtn, timestamps |-> out.timestamps, result |-> out.err,
                    reused |-> IF out.branch = "reuse" /\ out.err = ""
                               THEN rs.reused \cup {KeyOf(cred_info)} ELSE rs.reused,
                    called |-> IF out.calls # << >>
                               THEN rs.called \cup {KeyOf(cred_info)} ELSE rs.called,
                    written |-> IF out.cache # cache
                                   \/ (out.branch = "create" /\ out.err \in {"", "InvalidJson"})
                                THEN rs.written \cup {KeyOf(cred_info)} ELSE rs.written]
          /\ it' = [cred_info |-> cred_info, entry |-> entry, branch |-> out.branch,
                    err |-> out.err, timestamp |-> out.timestamp, calls |-> out.calls,
                    delta_from |-> out.delta_from, delta_to |-> out.delta_to]
          /\ UNCHANGED << proverVars, callVars >>

\* line 207: the body is done, the loop goes on to the next element
build_rev_states_json_continue ==
    /\ rs.pc = "iterated"
    /\ rs' = [rs EXCEPT !.pc = "loop"]
    /\ it' = NoIteration
    /\ UNCHANGED << cache, proverVars, callVars >>

\* line 209: Ok(rtn.to_string())
build_rev_states_json_return ==
    /\ rs.pc = "loop"
    /\ rs' = [rs EXCEPT !.pc = "returned", !.result = "Ok"]
    /\ UNCHANGED << cache, it, proverVars, callVars >>

NextRevStates ==
    \/ build_rev_states_json_enter
    \/ \E cred_info \in CredInputs, ledger \in LedgerAnswers :
          build_rev_states_json_iteration(cred_info, ledger)
    \/ build_rev_states_json_continue
    \/ build_rev_states_json_return

SpecRevStates == InitRevStates /\ [][NextRevStates]_vars

\* ------------------------------------------------- the handle-keyed API
\* ObjectCache::get / get_mut on a handle that holds no object
InvalidHandle(op, handle) ==
    [NoCall EXCEPT !.op = op, !.handle = handle, !.result = "InvalidHandle"]

Returned(op, handle, err, before, message, sent) ==
    [NoCall EXCEPT !.op = op, !.handle = handle,
                   !.result = IF err = "" THEN "Ok" ELSE err,
                   !.before = before, !.message = message, !.sent = sent]

\* get_state with the sequential numbering 1, 3, 2, 4, 0 of section 4.I
get_state_sequential(handle) ==
    IF IsSome(HANDLE_MAP[handle])
    THEN [err |-> "",
          code |-> IF Unwrap(HANDLE_MAP[handle]).state = "PresentationRequestReceived"
                   THEN 1 ELSE Prover_state(Unwrap(HANDLE_MAP[handle]))]
    ELSE [err |-> "InvalidConnectionHandle", code |-> 0]

\* line 319-323
get_state(handle) ==
    IF IsSome(HANDLE_MAP[handle])
    THEN [err |-> "", code |-> Prover_state(Unwrap(HANDLE_MAP[handle]))]
    ELSE [err |-> "InvalidConnectionHandle", code |-> 0]

\* get_presentation_status answering with the state code
get_presentation_status_as_state(handle) ==
    IF IsSome(HANDLE_MAP[handle])
    THEN [err |-> "", code |-> Prover_state(Unwrap(HANDLE_MAP[handle]))]
    ELSE [err |-> "InvalidHandle", code |-> 0]

\* line 477-481
get_presentation_status(handle) ==
    IF IsSome(HANDLE_MAP[handle])
    THEN [err |-> "", code |-> Prover_presentation_status(Unwrap(HANDLE_MAP[handle]))]
    ELSE [err |-> "InvalidHandle", code |-> 0]

\* create_proof storing a Prover whether or not the request parsed
create_proof_unparsed(source_id, parses, handle) ==
    /\ IsNone(HANDLE_MAP[handle])
    /\ HANDLE_MAP' = [HANDLE_MAP EXCEPT ![handle] = Some(Prover_create(source_id))]
    /\ last' = Returned("create_proof", handle, "", None, None, << >>)
    /\ UNCHANGED << revVars, callVars, inbox, outbox >>

\* line 288-298: a request that does not parse is InvalidJson; else the new
\* Prover goes into the handle map under a handle not in use.
create_proof(source_id, parses, handle) ==
    /\ IF ~parses
       THEN /\ last' = [NoCall EXCEPT !.op = "create_proof", !.result = "InvalidJson"]
            /\ UNCHANGED HANDLE_MAP
       ELSE /\ IsNone(HANDLE_MAP[handle])
            /\ HANDLE_MAP' = [HANDLE_MAP EXCEPT ![handle] = Some(Prover_create(source_id))]
            /\ last' = Returned("create_proof", handle, "", None, None, << >>)
    /\ UNCHANGED << revVars, callVars, inbox, outbox >>

\* generate_proof storing a prepared Prover whatever the pipeline returned
generate_proof_eager(handle, credentials, self_attested_attrs, ledger, fail) ==
    /\ IF IsNone(HANDLE_MAP[handle])
       THEN /\ last' = InvalidHandle("generate_proof", handle)
            /\ UNCHANGED << HANDLE_MAP, cache >>
       ELSE LET proof == Unwrap(HANDLE_MAP[handle])
                ran == proof.state = "PresentationRequestReceived"
                indy_proof == generate_indy_proof(credentials, self_attested_attrs,
                                                  TheProofRequest, cache, ledger, fail)
                out == Prover_generate_presentation(proof, indy_proof)
            IN /\ HANDLE_MAP' = [HANDLE_MAP EXCEPT ![handle] =
                                    Some([proof EXCEPT !.state = "PresentationPrepared"])]
               /\ cache' = IF ran THEN indy_proof.cache ELSE cache
               /\ last' = Returned("generate_proof", handle, out.err,
                                   Some(proof), None, << >>)
    /\ UNCHANGED << rs, it, callVars, inbox, outbox >>

\* line 388-393
generate_proof(handle, credentials, self_attested_attrs, ledger, fail) ==
    /\ IF IsNone(HANDLE_MAP[handle])
       THEN /\ last' = InvalidHandle("generate_proof", handle)
            /\ UNCHANGED << HANDLE_MAP, cache >>
       ELSE LET proof == Unwrap(HANDLE_MAP[handle])
                ran == proof.state = "PresentationRequestReceived"
                indy_proof == generate_indy_proof(credentials, self_attested_attrs,
                                                  TheProofRequest, cache, ledger, fail)
                out == Prover_generate_presentation(proof, indy_proof)
            IN /\ HANDLE_MAP' = [HANDLE_MAP EXCEPT ![handle] = Some(out.prover)]
               /\ cache' = IF ran THEN indy_proof.cache ELSE cache
               /\ last' = Returned("generate_proof", handle, out.err,
                                   Some(proof), None, << >>)
    /\ UNCHANGED << rs, it, callVars, inbox, outbox >>

\* send_proof taking the transmission for the verifier's acknowledgement
send_proof_and_finish(handle, delivered) ==
    /\ IF IsNone(HANDLE_MAP[handle])
       THEN /\ last' = InvalidHandle("send_proof", handle)
            /\ UNCHANGED << HANDLE_MAP, outbox >>
       ELSE LET proof == Unwrap(HANDLE_MAP[handle])
                out == Prover_send_presentation(proof, delivered)
            IN /\ HANDLE_MAP' = [HANDLE_MAP EXCEPT ![handle] =
                                    IF out.err = ""
                                    THEN Some([proof EXCEPT !.state = "Finished",
                                                            !.status = "Success"])
                                    ELSE Some(out.prover)]
               /\ outbox' = [outbox EXCEPT ![handle] = @ \o out.sent]
               /\ last' = Returned("send_proof", handle, out.err,
                                   Some(proof), None, out.sent)
    /\ UNCHANGED << revVars, callVars, inbox >>

\* send_proof transmitting without asking the state machine
send_proof_unchecked(handle, delivered) ==
    /\ IF IsNone(HANDLE_MAP[handle])
       THEN /\ last' = InvalidHandle("send_proof", handle)
            /\ UNCHANGED << HANDLE_MAP, outbox >>
       ELSE LET proof == Unwrap(HANDLE_MAP[handle])
                out == Prover_send_presentation(
                           [proof EXCEPT !.state = "PresentationPrepared"], delivered)
            IN /\ HANDLE_MAP' = [HANDLE_MAP EXCEPT ![handle] = Some(out.prover)]
               /\ outbox' = [outbox EXCEPT ![handle] = @ \o out.sent]
               /\ last' = Returned("send_proof", handle, out.err,
                                   Some(proof), None, out.sent)
    /\ UNCHANGED << revVars, callVars, inbox >>

\* send_proof dropping the Prover the state machine returned
send_proof_forgetful(handle, delivered) ==
    /\ IF IsNone(HANDLE_MAP[handle])
       THEN /\ last' = InvalidHandle("send_proof", handle)
            /\ UNCHANGED << HANDLE_MAP, outbox >>
       ELSE LET proof == Unwrap(HANDLE_MAP[handle])
                out == Prover_send_presentation(proof, delivered)
            IN /\ UNCHANGED HANDLE_MAP
               /\ outbox' = [outbox EXCEPT ![handle] = @ \o out.sent]
               /\ last' = Returned("send_proof", handle, out.err,
                                   Some(proof), None, out.sent)
    /\ UNCHANGED << revVars, callVars, inbox >>

\* line 363-370
send_proof(handle, delivered) ==
    /\ IF IsNone(HANDLE_MAP[handle])
       THEN /\ last' = InvalidHandle("send_proof", handle)
            /\ UNCHANGED << HANDLE_MAP, outbox >>
       ELSE LET proof == Unwrap(HANDLE_MAP[handle])
                out == Prover_send_presentation(proof, delivered)
            IN /\ HANDLE_MAP' = [HANDLE_MAP EXCEPT ![handle] = Some(out.prover)]
               /\ outbox' = [outbox EXCEPT ![handle] = @ \o out.sent]
               /\ last' = Returned("send_proof", handle, out.err,
                                   Some(proof), None, out.sent)
    /\ UNCHANGED << revVars, callVars, inbox >>

\* decline_presentation_request falling back to the reason of reject_proof
decline_presentation_request_default_reason(handle, reason, proposal) ==
    /\ IF IsNone(HANDLE_MAP[handle])
       THEN /\ last' = InvalidHandle("decline_presentation_request", handle)
            /\ UNCHANGED << HANDLE_MAP, outbox >>
       ELSE LET proof == Unwrap(HANDLE_MAP[handle])
                out == Prover_decline_presentation_request(proof,
                           IF IsNone(reason) /\ IsNone(proposal)
                           THEN Some("Presentation Request was rejected") ELSE reason,
                           proposal)
            IN /\ HANDLE_MAP' = [HANDLE_MAP EXCEPT ![handle] = Some(out.prover)]
               /\ outbox' = [outbox EXCEPT ![handle] = @ \o out.sent]
               /\ last' = [Returned("decline_presentation_request", handle, out.err,
                                    Some(proof), None, out.sent)
                              EXCEPT !.reason = reason, !.proposal = proposal]
    /\ UNCHANGED << revVars, callVars, inbox >>

\* line 395-402
decline_presentation_request(handle, reason, proposal) ==
    /\ IF IsNone(HANDLE_MAP[handle])
       THEN /\ last' = InvalidHandle("decline_presentation_request", handle)
            /\ UNCHANGED << HANDLE_MAP, outbox >>
       ELSE LET proof == Unwrap(HANDLE_MAP[handle])
                out == Prover_decline_presentation_request(proof, reason, proposal)
            IN /\ HANDLE_MAP' = [HANDLE_MAP EXCEPT ![handle] = Some(out.prover)]
               /\ outbox' = [outbox EXCEPT ![handle] = @ \o out.sent]
               /\ last' = [Returned("decline_presentation_request", handle, out.err,
                                    Some(proof), None, out.sent)
                              EXCEPT !.reason = reason, !.proposal = proposal]
    /\ UNCHANGED << revVars, callVars, inbox >>

\* reject_proof passing the fixed reason as the proposal as well
reject_proof_with_proposal(handle) ==
    /\ IF IsNone(HANDLE_MAP[handle])
       THEN /\ last' = InvalidHandle("reject_proof", handle)
            /\ UNCHANGED << HANDLE_MAP, outbox >>
       ELSE LET proof == Unwrap(HANDLE_MAP[handle])
                out == Prover_decline_presentation_request(proof,
                           Some("Presentation Request was rejected"),
                           Some("Presentation Request was rejected"))
            IN /\ HANDLE_MAP' = [HANDLE_MAP EXCEPT ![handle] = Some(out.prover)]
               /\ outbox' = [outbox EXCEPT ![handle] = @ \o out.sent]
               /\ last' = Returned("reject_proof", handle, out.err,
                                   Some(proof), None, out.sent)
    /\ UNCHANGED << revVars, callVars, inbox >>

\* line 379-386: the fixed reason, no proposal
reject_proof(handle) ==
    /\ IF IsNone(HANDLE_MAP[handle])
       THEN /\ last' = InvalidHandle("reject_proof", handle)
            /\ UNCHANGED << HANDLE_MAP, outbox >>
       ELSE LET proof == Unwrap(HANDLE_MAP[handle])
                out == Prover_decline_presentation_request(proof,
                           Some("Presentation Request was rejected"), None)
            IN /\ HANDLE_MAP' = [HANDLE_MAP EXCEPT ![handle] = Some(out.prover)]
               /\ outbox' = [outbox EXCEPT ![handle] = @ \o out.sent]
               /\ last' = Returned("reject_proof", handle, out.err,
                                   Some(proof), None, out.sent)
    /\ UNCHANGED << revVars, callVars, inbox >>

\* update_state taking whatever message it is handed for an Ack
update_state_all_acks(handle, message, downloaded) ==
    /\ IF IsNone(HANDLE_MAP[handle])
       THEN /\ last' = InvalidHandle("update_state", handle)
            /\ UNCHANGED << HANDLE_MAP, inbox >>
       ELSE LET proof == Unwrap(HANDLE_MAP[handle])
                out == Prover_update_state(proof,
                          IF IsSome(message) /\ message # Some("Malformed")
                          THEN Some("Ack") ELSE message,
                          inbox[handle], downloaded)
            IN /\ HANDLE_MAP' = [HANDLE_MAP EXCEPT ![handle] = Some(out.prover)]
               /\ inbox' = [inbox EXCEPT ![handle] = out.pending]
               /\ last' = [Returned("update_state", handle, out.err, Some(proof),
                                    message, << >>)
                              EXCEPT !.code = IF out.err = "" THEN Prover_state(out.prover)
                                              ELSE 0]
    /\ UNCHANGED << revVars, callVars, outbox >>

\* update_state feeding the pending messages newest first
update_state_newest_first(handle, message, downloaded) ==
    /\ IF IsNone(HANDLE_MAP[handle])
       THEN /\ last' = InvalidHandle("update_state", handle)
            /\ UNCHANGED << HANDLE_MAP, inbox >>
       ELSE LET proof == Unwrap(HANDLE_MAP[handle])
                newest_first == [i \in 1..Len(inbox[handle]) |->
                                    inbox[handle][Len(inbox[handle]) + 1 - i]]
                out == Prover_update_state(proof, message, newest_first, downloaded)
            IN /\ HANDLE_MAP' = [HANDLE_MAP EXCEPT ![handle] = Some(out.prover)]
               /\ inbox' = [inbox EXCEPT ![handle] = out.pending]
               /\ last' = [Returned("update_state", handle, out.err, Some(proof),
                                    message, << >>)
                              EXCEPT !.code = IF out.err = "" THEN Prover_state(out.prover)
                                              ELSE 0,
                                     !.polled = IF IsNone(message) /\ downloaded
                                                THEN inbox[handle] ELSE << >>]
    /\ UNCHANGED << revVars, callVars, outbox >>

\* line 325-330: Prover::update_state, then the state code
update_state(handle, message, downloaded) ==
    /\ IF IsNone(HANDLE_MAP[handle])
       THEN /\ last' = InvalidHandle("update_state", handle)
            /\ UNCHANGED << HANDLE_MAP, inbox >>
       ELSE LET proof == Unwrap(HANDLE_MAP[handle])
                out == Prover_update_state(proof, message, inbox[handle], downloaded)
            IN /\ HANDLE_MAP' = [HANDLE_MAP EXCEPT ![handle] = Some(out.prover)]
               /\ inbox' = [inbox EXCEPT ![handle] = out.pending]
               /\ last' = [Returned("update_state", handle, out.err, Some(proof),
                                    IF IsSome(message) THEN message
                                    ELSE IF out.err = "" /\ out.prover # proof
                                         THEN Some(inbox[handle][Len(inbox[handle]) - Len(out.pending)])
                                         ELSE None,
                                    << >>)
                              EXCEPT !.code = IF out.err = "" THEN Prover_state(out.prover)
                                              ELSE 0,
                                     !.polled = IF IsNone(message) /\ downloaded
                                                THEN inbox[handle] ELSE << >>]
    /\ UNCHANGED << revVars, callVars, outbox >>

\* The other party's agent sends a message on the thread of a Prover: the two
\* the Prover reacts to, and one it does not.
AgencyKinds == {"Ack", "ProblemReport", "Presentation"}
agency_receive(handle, kind) ==
    /\ IsSome(HANDLE_MAP[handle])
    /\ Len(inbox[handle]) < MaxInbox
    /\ inbox' = [inbox EXCEPT ![handle] = Append(@, kind)]
    /\ UNCHANGED << revVars, callVars, HANDLE_MAP, outbox, last >>

\* The selected credentials and self-attested attributes a caller passes.
RevocableEntry ==
    [referent |-> Some("cred1"), schema_id |-> Some("schema1"), cred_def_id |-> Some("def1"),
     rev_reg_id |-> Some("rev1"), cred_rev_id |-> Some("cr1"), tails_file |-> Some("tails")]
PlainEntry ==
    [RevocableEntry EXCEPT !.referent = Some("cred2"), !.rev_reg_id = None,
                           !.cred_rev_id = None, !.tails_file = None]
SelectedCredentials ==
    { [json |-> FALSE, attrs |-> [k \in {} |-> RevocableEntry]],
      [json |-> TRUE, attrs |-> [k \in {} |-> RevocableEntry]],
      [json |-> TRUE, attrs |-> [k \in {"zip_2"} |-> RevocableEntry]],
      [json |-> TRUE, attrs |-> [k \in {"address1_1", "zip_2"} |->
                                    IF k = "zip_2" THEN RevocableEntry ELSE PlainEntry]],
      [json |-> TRUE, attrs |-> [k \in {"address1_1"} |->
                                    [RevocableEntry EXCEPT !.schema_id = None]]],
      [json |-> TRUE, attrs |-> [k \in {"height_1"} |-> RevocableEntry]] }
SelfAttested == { [json |-> FALSE, value |-> "{}"], [json |-> TRUE, value |-> "{}"] }

\* The inputs of generate_proof.  A call on a handle that holds no Prover in
\* RequestReceived reads none of them; one that runs the pipeline gets every
\* selection against every ledger answer, and around the plain case a
\* self-attested string that is not JSON and each failure of a later step.
PlainAnswer == [timestamp |-> 0, fail |-> "none"]
PlainSelection == [json |-> TRUE, attrs |-> [k \in {"zip_2"} |-> RevocableEntry]]
PlainSelfAttested == [json |-> TRUE, value |-> "{}"]
GenerateInputs(handle) ==
    IF IsSome(HANDLE_MAP[handle]) /\
       Unwrap(HANDLE_MAP[handle]).state = "PresentationRequestReceived"
    THEN (SelectedCredentials \X {PlainSelfAttested} \X LedgerAnswers \X {"none"})
         \cup ({PlainSelection} \X SelfAttested \X {PlainAnswer} \X PipelineFails)
    ELSE { << PlainSelection, PlainSelfAttested, PlainAnswer, "none" >> }

\* The inputs of a call that takes a handle and more: a handle that holds no
\* object fails the lookup before anything else is read.
InputsOf(handle, inputs, any) == IF IsSome(HANDLE_MAP[handle]) THEN inputs ELSE {any}

\* The protocol specification follows the Prover under one handle; the other
\* handle stays free and is what a call on an unknown handle uses.
TrackedHandles == {1}

Next ==
    \/ \E source_id \in SourceIds, parses \in BOOLEAN, handle \in TrackedHandles :
          create_proof(source_id, parses, handle)
    \/ \E handle \in Handles : \E in \in GenerateInputs(handle) :
          generate_proof(handle, in[1], in[2], [r \in RevRegIds |-> in[3]], in[4])
    \/ \E handle \in Handles : \E delivered \in InputsOf(handle, BOOLEAN, TRUE) :
          send_proof(handle, delivered)
    \/ \E handle \in Handles : reject_proof(handle)
    \/ \E handle \in Handles :
          \E in \in InputsOf(handle, Opt({"no"}) \X Opt({"proposal"}), << None, None >>) :
          decline_presentation_request(handle, in[1], in[2])
    \/ \E handle \in Handles :
          \E in \in InputsOf(handle, Opt(A2AKinds \cup {"Malformed"}) \X BOOLEAN,
                             << None, TRUE >>) :
          update_state(handle, in[1], in[2])
    \/ \E handle \in Handles, kind \in AgencyKinds : agency_receive(handle, kind)

Spec == Init /\ [][Next]_vars

\* ------------------------------------------------------------------ claims
\* The iteration that just ran (or failed) was over a credential with all of
\* rev_reg_id, cred_rev_id, tails_file, whose cache entry held a state s and
\* whose interval has to = t with from.unwrap_or(0) <= s.timestamp <= t.
ReusePrecondition ==
    /\ rs.pc \in {"iterated", "failed"}
    /\ HasRevocationData(it.cred_info)
    /\ IsSome(it.entry)
    /\ IsSome(IntervalTo(it.cred_info))
    /\ UnwrapOr(IntervalFrom(it.cred_info), 0) <= Unwrap(it.entry).timestamp
    /\ Unwrap(it.entry).timestamp <= Unwrap(IntervalTo(it.cred_info))

ReuseOutcome ==
    /\ it.err = ""
    /\ rs.rtn[Unwrap(it.cred_info.rev_reg_id)] = it.entry
    /\ it.timestamp = Some(Unwrap(it.entry).timestamp)
    /\ it.calls = << >>
    /\ KeyOf(it.cred_info) \notin rs.called
    /\ cache[KeyOf(it.cred_info)] = it.entry

\* C1 as stated: every credential that has the three revocation fields and a
\* cached state inside its interval gets the cached state as its output,
\* is stamped with the cached timestamp, causes no ledger or crypto call for
\* its key during the call, and leaves the cache entry as it was.
C1_ReuseAsStated == ReusePrecondition => ReuseOutcome

\* C1 amended: for a credential whose rev_reg_id is not yet in the output of
\* the running call (it is the first of its registry in the list) the reuse
\* branch runs, with no ledger or crypto call and the cache entry left as it
\* was; if the cached value parses as JSON the output and the stamp are the
\* cached ones, and if it does not the call fails with InvalidJson.  For the
\* rest of the call every key so reused sees no ledger or crypto call and
\* keeps its cache entry, which equals the output of its registry.
C1_Reuse ==
    /\ (ReusePrecondition /\ it.branch # "memo")
          => /\ it.branch = "reuse"
             /\ it.calls = << >>
             /\ KeyOf(it.cred_info) \notin rs.called
             /\ cache[KeyOf(it.cred_info)] = it.entry
             /\ IF Unwrap(it.entry).value.op # "nojson"
                THEN ReuseOutcome
                ELSE it.err = "InvalidJson"
    /\ \A k \in rs.reused : k \notin rs.called /\ cache[k] = rs.rtn[k[1]]

\* C1 witness: a reuse has happened for an interval with both ends set and
\* the cached timestamp at the upper end.
C1_Witness ==
    /\ rs.pc = "iterated" /\ it.branch = "reuse"
    /\ IsSome(IntervalFrom(it.cred_info))
    /\ Unwrap(it.entry).timestamp = Unwrap(IntervalTo(it.cred_info))
    /\ Unwrap(it.entry).timestamp > 0
    /\ KeyOf(it.cred_info) \in rs.reused

\* ---------------------------------------------------- the Prover protocol
HasProver(h) == IsSome(HANDLE_MAP[h])
ProverOf(h) == Unwrap(HANDLE_MAP[h])
StateOf(h) == ProverOf(h).state
Terminal == {"Finished", "Declined"}
Presentations(h) == Len(SelectSeq(outbox[h], LAMBDA m : m = "Presentation"))

\* The call that returned last was op on a handle that held a Prover in `state`.
CalledIn(op, state) ==
    last.op = op /\ IsSome(last.before) /\ Unwrap(last.before).state = state

C2_FinishedStep ==
    \A h \in Handles :
       (HasProver(h)' /\ StateOf(h)' = "Finished" /\
        ~(HasProver(h) /\ StateOf(h) = "Finished"))
       => /\ HasProver(h) /\ StateOf(h) = "PresentationSent"
          /\ last'.op = "update_state" /\ last'.handle = h /\ last'.result = "Ok"
          /\ \/ /\ last'.message = Some("Ack")
                /\ ProverOf(h)'.status = "Success"
                /\ get_state(h)'.code = 4
             \/ /\ last'.message = Some("ProblemReport")
                /\ ProverOf(h)'.status = "Failed"

C2_AckAfterSend ==
    (CalledIn("update_state", "PresentationSent") /\ last.result = "Ok"
        /\ last.message = Some("Ack"))
    => /\ get_state(last.handle) = [err |-> "", code |-> 4]
       /\ get_presentation_status(last.handle) = [err |-> "", code |-> 1]
       /\ last.code = 4

\* C2: a Prover becomes Finished only in a step of update_state taken in
\* PresentationSent that processed an Ack (status Success, code 4) or a
\* ProblemReport (status Failed), and an update_state that processes an Ack
\* in PresentationSent yields state code 4 and status code 1.
C2_FinishedOnlyByAckOrReport == [][C2_FinishedStep]_vars /\ []C2_AckAfterSend

\* C2 witness: a sent Presentation was acknowledged and the Prover is Finished.
C2_Witness ==
    \E h \in Handles :
       /\ HasProver(h) /\ StateOf(h) = "Finished" /\ ProverOf(h).status = "Success"
       /\ CalledIn("update_state", "PresentationSent") /\ last.handle = h
       /\ last.message = Some("Ack") /\ last.code = 4
       /\ Presentations(h) = 1

C3_Step ==
    \A h \in Handles :
       (HasProver(h) /\ StateOf(h) \in Terminal /\ HasProver(h)')
       => (StateOf(h)' = StateOf(h) /\ ProverOf(h)'.status = ProverOf(h).status)

\* C3: no step takes a Prover that is Finished or Declined to another state
\* or another status.
C3_Monotonic == [][C3_Step]_vars

\* C3 witness: an Ack was fed to a Prover that had declined, and it is still
\* Declined.
C3_Witness ==
    /\ CalledIn("update_state", "Declined") /\ last.message = Some("Ack")
    /\ last.result = "Ok"
    /\ StateOf(last.handle) = "Declined"

\* C4: no Prover has transmitted more than one Presentation, and one that is
\* in PresentationSent or Finished has transmitted exactly one.
C4_OnePresentation ==
    \A h \in Handles :
       /\ Presentations(h) <= 1
       /\ (HasProver(h) /\ StateOf(h) \in {"PresentationSent", "Finished"})
             => Presentations(h) = 1

\* C4 witness: send_proof was called again after the Presentation went out.
C4_Witness ==
    /\ CalledIn("send_proof", "PresentationSent")
    /\ Presentations(last.handle) = 1
    /\ StateOf(last.handle) = "PresentationSent"

C5_Step ==
    (last' # last /\ last'.op = "send_proof" /\ IsSome(last'.before)
        /\ Unwrap(last'.before).state # "PresentationPrepared")
    => /\ last'.before = HANDLE_MAP[last'.handle]
       /\ last'.result = "ActionNotSupported"
       /\ last'.sent = << >> /\ outbox' = outbox
       /\ HANDLE_MAP' = HANDLE_MAP

C6_Declines ==
    ((last.op = "reject_proof" \/
      (last.op = "decline_presentation_request" /\ IsSome(last.reason)
          /\ IsNone(last.proposal)))
     /\ IsSome(last.before)
     /\ Unwrap(last.before).state = "PresentationRequestReceived")
    => /\ last.result = "Ok" /\ last.sent = << "ProblemReport" >>
       /\ StateOf(last.handle) = "Declined"

C6_DeclinedCodes ==
    \A h \in Handles :
       (HasProver(h) /\ StateOf(h) = "Declined")
       => /\ get_state(h) = [err |-> "", code |-> 0]
          /\ get_presentation_status(h) = [err |-> "", code |-> 3]

C6_SendAfterDecline(kind) ==
    CalledIn("send_proof", "Declined")
    => (last.result = kind /\ StateOf(last.handle) = "Declined")

C7_ErrorsKeepState ==
    (last.op \in {"generate_proof", "send_proof", "update_state"}
        /\ IsSome(last.before) /\ last.result # "Ok")
    => /\ HANDLE_MAP[last.handle] = last.before
       /\ last.sent = << >>

\* C7 witness: the transmission of send_proof failed and the Prover is still
\* in PresentationPrepared.
C7_Witness ==
    /\ CalledIn("send_proof", "PresentationPrepared")
    /\ last.result = "PostMessageFailed"
    /\ StateOf(last.handle) = "PresentationPrepared"
    /\ Presentations(last.handle) = 0

\* The literal codes of section 6.
C8_Code(state) ==
    CASE state = "Initial" -> 0
      [] state = "PresentationRequestReceived" -> 3
      [] state = "PresentationPrepared" -> 3
      [] state = "PresentationSent" -> 2
      [] state = "Finished" -> 4
      [] state = "Declined" -> 0

\* C8: get_state, and the code update_state returns, is the literal code of
\* the Prover's state: 3 after create_proof, 3 after a successful
\* generate_proof, 2 after a successful send_proof.
C8_StateCodes ==
    /\ \A h \in Handles :
          HasProver(h) => get_state(h) = [err |-> "", code |-> C8_Code(StateOf(h))]
    /\ (last.op = "update_state" /\ last.result = "Ok")
          => last.code = get_state(last.handle).code
    /\ (last.op \in {"create_proof", "generate_proof"} /\ last.result = "Ok")
          => get_state(last.handle).code = 3
    /\ (last.op = "send_proof" /\ last.result = "Ok")
          => get_state(last.handle).code = 2

\* C8 witness: a Presentation has just been sent and the code is 2.
C8_Witness ==
    /\ CalledIn("send_proof", "PresentationPrepared") /\ last.result = "Ok"
    /\ get_state(last.handle).code = 2

C9_Codes ==
    \A h \in Handles :
       HasProver(h)
       => /\ get_presentation_status(h).err = ""
          /\ StateOf(h) \notin Terminal => get_presentation_status(h).code = 0
          /\ StateOf(h) \in Terminal => get_presentation_status(h).code \in {1, 2, 3}

C9_Step ==
    \A h \in Handles :
       /\ (get_presentation_status(h)'.code = 1 /\ get_presentation_status(h).code # 1)
          => (last'.op = "update_state" /\ last'.handle = h
                 /\ last'.message = Some("Ack"))
       /\ (get_presentation_status(h)'.code = 2 /\ get_presentation_status(h).code # 2)
          => (last'.op = "update_state" /\ last'.handle = h
                 /\ last'.message = Some("ProblemReport"))

\* C9: the status code is 0 outside Finished and Declined and 1, 2 or 3
\* inside; it becomes 1 only in a step that processed an Ack and 2 only in a
\* step that processed a ProblemReport.
C9_PresentationStatus == []C9_Codes /\ [][C9_Step]_vars

\* C9 witness: the verifier answered with a ProblemReport and the status is
\* Failed.
C9_Witness ==
    /\ CalledIn("update_state", "PresentationSent")
    /\ last.message = Some("ProblemReport")
    /\ get_presentation_status(last.handle).code = 2
    /\ StateOf(last.handle) = "Finished"

\* C10: a decline_presentation_request with both or neither of reason and
\* proposal fails with InvalidOption, sends nothing and leaves the Prover as
\* it was; with exactly one of them, in RequestReceived, it succeeds and the
\* Prover is Declined.
C10_ExactlyOne ==
    (last.op = "decline_presentation_request" /\ IsSome(last.before))
    => /\ (IsSome(last.reason) = IsSome(last.proposal))
             => /\ last.result = "InvalidOption"
                /\ last.sent = << >>
                /\ HANDLE_MAP[last.handle] = last.before
       /\ (IsSome(last.reason) # IsSome(last.proposal)
             /\ Unwrap(last.before).state = "PresentationRequestReceived")
             => /\ last.result = "Ok"
                /\ StateOf(last.handle) = "Declined"

\* C10 witness: a decline with both a reason and a proposal was refused in
\* RequestReceived.
C10_Witness ==
    /\ CalledIn("decline_presentation_request", "PresentationRequestReceived")
    /\ IsSome(last.reason) /\ IsSome(last.proposal)
    /\ last.result = "InvalidOption"
    /\ StateOf(last.handle) = "PresentationRequestReceived"
    /\ outbox[last.handle] = << >>

\* ------------------------------------------- the revocation-state builder
\* The iteration that ran last looked the cache up (its registry was not yet
\* in the output of the running call).
LookedUp ==
    /\ rs.pc \in {"iterated", "failed"}
    /\ HasRevocationData(it.cred_info)
    /\ it.branch # "memo"

\* The crypto primitive the iteration that ran last called, "" when none.
CryptoCalled == IF Len(it.calls) = 3 THEN it.calls[3] ELSE ""

\* C11 as stated: a witness computed while the cache holds a state for the
\* key is computed by update_revocation_state; create_revocation_state is
\* called only when the cache holds no state.
C11_BranchAsStated ==
    (LookedUp /\ CryptoCalled # "")
    => /\ IsSome(it.entry) => CryptoCalled = "libindy_prover_update_revocation_state"
       /\ CryptoCalled = "libindy_prover_create_revocation_state" => IsNone(it.entry)

\* C11 amended: update_revocation_state is called exactly when the cache holds
\* a state, the interval has a `to` and the cached timestamp is outside the
\* window; create_revocation_state is called exactly when the cache holds no
\* state or the interval, or its `to`, is absent.
C11_Branch ==
    LookedUp
    => /\ (IsSome(it.entry) /\ IsSome(IntervalTo(it.cred_info)))
             => \/ it.branch = "reuse" /\ CryptoCalled = ""
                      /\ CachedStateInInterval(Unwrap(it.entry), IntervalFrom(it.cred_info),
                                               Unwrap(IntervalTo(it.cred_info)))
                \/ it.branch = "update"
                      /\ CryptoCalled \in {"", "libindy_prover_update_revocation_state"}
                      /\ ~(UnwrapOr(IntervalFrom(it.cred_info), 0) <= Unwrap(it.entry).timestamp
                           /\ Unwrap(it.entry).timestamp <= Unwrap(IntervalTo(it.cred_info)))
       /\ (IsNone(it.entry) \/ IsNone(IntervalTo(it.cred_info)))
             => /\ it.branch = "create"
                /\ CryptoCalled \in {"", "libindy_prover_create_revocation_state"}
       /\ it.err = "" => (it.branch = "reuse" \/ CryptoCalled # "")

\* C11 witness: a cached state older than the window's `from` was updated.
C11_Witness ==
    /\ LookedUp /\ rs.pc = "iterated"
    /\ IsSome(it.entry) /\ IsSome(IntervalTo(it.cred_info))
    /\ Unwrap(it.entry).timestamp < UnwrapOr(IntervalFrom(it.cred_info), 0)
    /\ CryptoCalled = "libindy_prover_update_revocation_state"

\* The update arm ran in the iteration that ran last and its crypto call
\* returned a state that parses.
Updated ==
    /\ LookedUp /\ rs.pc = "iterated"
    /\ it.branch = "update"
    /\ CryptoCalled = "libindy_prover_update_revocation_state"

\* C12: after the update arm, with cached state s and ledger timestamp t', the
\* output of the registry and the stamp of the credential are (new_value, t'),
\* and the cache entry is {t', new_value} if t' > s.timestamp and is s
\* otherwise.
C12_WriteBack ==
    Updated
    => LET s == Unwrap(it.entry)
           t == Unwrap(it.timestamp)
           new == [timestamp |-> t, value |-> [op |-> "update", at |-> t]]
       IN /\ IsSome(it.timestamp)
          /\ rs.rtn[Unwrap(it.cred_info.rev_reg_id)] = Some(new)
          /\ rs.timestamps[Unwrap(it.cred_info.rev_reg_id)] = Some(t)
          /\ cache[KeyOf(it.cred_info)] = IF t > s.timestamp THEN Some(new) ELSE it.entry

\* C12 witness: the ledger answered with a timestamp below the cached one, the
\* cache kept its entry and the output is the new state.
C12_Witness ==
    /\ Updated
    /\ Unwrap(it.timestamp) < Unwrap(it.entry).timestamp
    /\ cache[KeyOf(it.cred_info)] = it.entry
    /\ rs.rtn[Unwrap(it.cred_info.rev_reg_id)] # it.entry

\* C13: with no cached state for the key the create arm runs: the delta is
\* asked for the window (None, to), create_revocation_state is called, and
\* when the iteration succeeds the cache entry is the state put in the output
\* and stamped on the credential; until the call returns, the cache entry of
\* every key created in the call equals the output of its registry.
C13_FreshCreate ==
    /\ (LookedUp /\ IsNone(it.entry))
          => /\ it.branch = "create"
             /\ CryptoCalled \in {"", "libindy_prover_create_revocation_state"}
             /\ Len(it.calls) >= 2
                   => (it.delta_from = None /\ it.delta_to = IntervalTo(it.cred_info))
             /\ it.err = ""
                   => LET t == Unwrap(it.timestamp)
                          new == [timestamp |-> t, value |-> [op |-> "create", at |-> t]]
                      IN /\ CryptoCalled = "libindy_prover_create_revocation_state"
                         /\ cache[KeyOf(it.cred_info)] = Some(new)
                         /\ rs.rtn[Unwrap(it.cred_info.rev_reg_id)] = Some(new)
    /\ \A k \in rs.called :
          (rs.pc \in {"loop", "iterated", "returned"} /\ IsSome(rs.rtn[k[1]])
              /\ Unwrap(rs.rtn[k[1]]).value.op = "create")
          => cache[k] = rs.rtn[k[1]]

\* C13 witness: a call that created the state of a registry at a timestamp
\* above 0 has returned, and the cache holds that state.
C13_Witness ==
    /\ rs.pc = "returned"
    /\ \E k \in rs.called :
          /\ IsSome(rs.rtn[k[1]]) /\ Unwrap(rs.rtn[k[1]]).value.op = "create"
          /\ cache[k] = rs.rtn[k[1]]
          /\ Unwrap(cache[k]).timestamp > 0

\* The iteration that ran last found a cached state with timestamp T for an
\* interval {from: None, to: T - 1}.
NewerThanWindow ==
    /\ LookedUp
    /\ IsSome(it.entry)
    /\ IsSome(it.cred_info.revocation_interval)
    /\ IntervalFrom(it.cred_info) = None
    /\ IntervalTo(it.cred_info) = Some(Unwrap(it.entry).timestamp - 1)

\* C14 as stated: then create_revocation_state runs, the output timestamp is
\* not T and the cache entry is as it was.
C14_NewerCacheAsStated ==
    (NewerThanWindow /\ rs.pc = "iterated")
    => /\ CryptoCalled = "libindy_prover_create_revocation_state"
       /\ Unwrap(it.timestamp) # Unwrap(it.entry).timestamp
       /\ cache[KeyOf(it.cred_info)] = it.entry

\* C14 amended: then the update arm runs, over the window (None, T - 1) and
\* with update_revocation_state; the cache entry is as it was unless the
\* ledger answers with a timestamp above T, and the output timestamp is the
\* ledger's, which is not T when the ledger keeps to the window.
C14_NewerCache ==
    NewerThanWindow
    => /\ it.branch = "update"
       /\ CryptoCalled \in {"", "libindy_prover_update_revocation_state"}
       /\ Len(it.calls) >= 2
             => (it.delta_from = None /\ it.delta_to = IntervalTo(it.cred_info))
       /\ rs.pc = "iterated"
             => LET T == Unwrap(it.entry).timestamp
                    t == Unwrap(it.timestamp)
                IN /\ CryptoCalled = "libindy_prover_update_revocation_state"
                   /\ Unwrap(rs.rtn[Unwrap(it.cred_info.rev_reg_id)]).timestamp = t
                   /\ t <= T => cache[KeyOf(it.cred_info)] = it.entry
                   /\ t > T => Unwrap(cache[KeyOf(it.cred_info)]).timestamp = t
                   /\ t <= Unwrap(IntervalTo(it.cred_info)) => t # T

\* C14 witness: the cached state is newer than the window, the ledger
\* answered inside the window, the cache entry is as it was.
C14_Witness ==
    /\ NewerThanWindow /\ rs.pc = "iterated"
    /\ CryptoCalled = "libindy_prover_update_revocation_state"
    /\ Unwrap(it.timestamp) <= Unwrap(IntervalTo(it.cred_info))
    /\ cache[KeyOf(it.cred_info)] = it.entry

\* C15: the timestamp cached for a key never decreases: every step leaves each
\* cached key cached, with a timestamp not below the one it had.
C15_Step ==
    \A key \in CacheKeys :
        IsSome(cache[key])
        => /\ IsSome(cache'[key])
           /\ Unwrap(cache'[key]).timestamp >= Unwrap(cache[key]).timestamp
C15_MonotonicCache == [][C15_Step]_vars

\* C15: every step leaves each cached key cached; the timestamp cached for a
\* key goes down only in an iteration over that key that took the fresh-create
\* path although a state was cached, because the interval has no `to`.  The
\* reuse and delta-update paths never lower it.
C15_GuardedStep ==
    \A key \in CacheKeys :
        IsSome(cache[key])
        => /\ IsSome(cache'[key])
           /\ Unwrap(cache'[key]).timestamp < Unwrap(cache[key]).timestamp
              => /\ rs.pc = "loop"
                 /\ it'.branch = "create"
                 /\ KeyOf(it'.cred_info) = key
                 /\ it'.entry = cache[key]
                 /\ IntervalTo(it'.cred_info) = None
                 /\ Unwrap(cache'[key]).timestamp = Unwrap(cache'[key]).value.at
C15_GuardedWrites == [][C15_GuardedStep]_vars

\* A fresh-create over a cached state left an older timestamp in the cache.
C15_Witness ==
    /\ rs.pc = "iterated"
    /\ it.branch = "create"
    /\ IsSome(it.entry)
    /\ Unwrap(cache[KeyOf(it.cred_info)]).timestamp < Unwrap(it.entry).timestamp

\* A credential carries all three of rev_reg_id, cred_rev_id and tails_file.
AllThree(cred_info) ==
    /\ IsSome(cred_info.rev_reg_id)
    /\ IsSome(cred_info.cred_rev_id)
    /\ IsSome(cred_info.tails_file)

\* C16: in a call that does not fail, the iteration over a credential with
\* all three revocation fields leaves it with a timestamp and its registry in
\* the output; the iteration over a credential lacking one of them leaves its
\* timestamp None and the output, the timestamps map and the cache as they were.
C16_Step ==
    (rs.pc = "loop" /\ rs'.pc = "iterated")
    => IF AllThree(it'.cred_info)
       THEN /\ IsSome(it'.timestamp)
            /\ IsSome(rs'.rtn[Unwrap(it'.cred_info.rev_reg_id)])
       ELSE /\ it'.timestamp = None
            /\ rs'.rtn = rs.rtn
            /\ rs'.timestamps = rs.timestamps
            /\ cache' = cache
            /\ it'.calls = << >>
C16_Timestamps == [][C16_Step]_vars

\* Both cases in one call: a registry was processed and put in the output,
\* and then a credential lacking a field was passed over.
C16_Witness ==
    /\ rs.pc = "iterated"
    /\ ~AllThree(it.cred_info)
    /\ IsSome(it.cred_info.rev_reg_id)
    /\ it.timestamp = None
    /\ \E r \in RevRegIds : IsSome(rs.rtn[r]) /\ rs.timestamps[r] = Some(MaxTime)

\* C17 as stated: after an iteration that did not fail, a credential whose
\* rev_reg_id is present has its timestamp present.
C17_RegistryAsStated ==
    (rs.pc = "iterated" /\ IsSome(it.cred_info.rev_reg_id)) => IsSome(it.timestamp)

\* C17: after an iteration that did not fail, a credential whose rev_reg_id is
\* present has its timestamp present exactly when its cred_rev_id and its
\* tails_file are present too, and the timestamp is then the one recorded for
\* its registry in this call.
C17_Registry ==
    (rs.pc = "iterated" /\ IsSome(it.cred_info.rev_reg_id))
    => /\ IsSome(it.timestamp)
            <=> (IsSome(it.cred_info.cred_rev_id) /\ IsSome(it.cred_info.tails_file))
       /\ IsSome(it.timestamp)
            => it.timestamp = rs.timestamps[Unwrap(it.cred_info.rev_reg_id)]

\* A credential of an already processed registry was stamped from the map.
C17_Witness ==
    /\ rs.pc = "iterated"
    /\ it.branch = "memo"
    /\ it.timestamp = Some(MaxTime)
    /\ it.calls = << >>

\* C18: within one call, an iteration over a credential whose registry is
\* already in the output reads no cache, issues no ledger or crypto call,
\* writes nothing, and stamps the credential with the timestamp recorded for
\* the registry; an iteration that looks the cache up or issues a call is the
\* first for its registry, and when it succeeds the registry is in the output.
C18_Step ==
    (rs.pc = "loop" /\ rs'.pc \in {"iterated", "failed"} /\ AllThree(it'.cred_info))
    => LET rev_reg_id == Unwrap(it'.cred_info.rev_reg_id)
       IN IF IsSome(rs.rtn[rev_reg_id])
          THEN /\ it'.branch = "memo"
               /\ rs'.pc = "iterated"
               /\ it'.calls = << >>
               /\ cache' = cache
               /\ rs'.rtn = rs.rtn
               /\ rs'.timestamps = rs.timestamps
               /\ rs'.called = rs.called
               /\ rs'.reused = rs.reused
               /\ it'.timestamp = rs.timestamps[rev_reg_id]
               /\ it'.timestamp = Some(Unwrap(rs.rtn[rev_reg_id]).timestamp)
          ELSE /\ it'.branch \in {"reuse", "update", "create"}
               /\ KeyOf(it'.cred_info) \notin rs.called \cup rs.reused
               /\ rs'.pc = "iterated" => IsSome(rs'.rtn[rev_reg_id])
C18_Memoisation == [][C18_Step]_vars

\* A credential with an interval of its own met a registry processed before.
C18_Witness ==
    /\ rs.pc = "iterated"
    /\ it.branch = "memo"
    /\ IsSome(it.cred_info.revocation_interval)
    /\ KeyOf(it.cred_info) \in rs.called
    /\ IsSome(it.timestamp)

\* ------------------------------------- build_rev_states_json on two threads
\* Calls of build_rev_states_json made through different handles run on
\* different threads and share the cache.  The cache is touched at two places
\* of an iteration, get_rev_reg_cache at line 120 and set_rev_reg_cache at
\* line 158 or 185, and nothing is held from the one to the other; the ledger
\* and crypto calls in between are suspension points.  Each thread works on
\* one credential of the registry both contend for.
ThreadCreds == { cr \in CompleteCreds : cr.rev_reg_id = Some("rev1") }

\* The branch a thread took from what it read.
ThreadBranch(thread) ==
    Branch(thread.entry, IntervalFrom(thread.cred_info), IntervalTo(thread.cred_info))

InitThreads == Init

\* line 113-120: up to and including the cache lookup
thread_get_rev_reg_cache(handle, cred_info) ==
    /\ threads[handle].pc = "idle"
    /\ threads' = [threads EXCEPT ![handle] =
          [pc |-> "read", cred_info |-> cred_info,
           entry |-> get_rev_reg_cache(cache, Unwrap(cred_info.rev_reg_id),
                                       Unwrap(cred_info.cred_rev_id))]]
    /\ UNCHANGED << revVars, proverVars, resolution, pureVars >>

\* line 122-188: the ledger and crypto calls, then the cache write, made
\* with the state that was read at line 120
thread_set_rev_reg_cache(handle, ledger) ==
    /\ threads[handle].pc = "read"
    /\ LET thread == threads[handle]
           rev_reg_id == Unwrap(thread.cred_info.rev_reg_id)
           cred_rev_id == Unwrap(thread.cred_info.cred_rev_id)
           branch == ThreadBranch(thread)
           early == branch # "reuse" /\
                    ledger.fail \in {"get_rev_reg_def_json", "get_rev_reg_delta_json", "crypto"}
           new_cache == [timestamp |-> ledger.timestamp,
                         value |-> [op |-> IF ledger.fail = "nojson" THEN "nojson" ELSE branch,
                                    at |-> ledger.timestamp]]
       IN cache' = IF early \/ branch = "reuse" THEN cache
                   ELSE CacheWritten(branch, cache, rev_reg_id, cred_rev_id,
                                     thread.entry, new_cache)
    /\ threads' = [threads EXCEPT ![handle] = IdleThread]
    /\ UNCHANGED << rs, it, proverVars, resolution, pureVars >>

NextThreads ==
    \/ \E handle \in Handles, cred_info \in ThreadCreds :
          thread_get_rev_reg_cache(handle, cred_info)
    \/ \E handle \in Handles, ledger \in LedgerAnswers :
          thread_set_rev_reg_cache(handle, ledger)

SpecThreads == InitThreads /\ [][NextThreads]_vars

\* A thread is between its cache read and its cache write in the delta-update
\* or the fresh-create branch.
InReadModifyWrite(handle) ==
    /\ threads[handle].pc = "read"
    /\ ThreadBranch(threads[handle]) \in {"update", "create"}

\* C19: the read-modify-write of the delta-update and fresh-create branches is
\* atomic per key: while a thread is between its cache read and its cache
\* write, no step of another thread changes the cache entry of its key; and
\* the write of a delta-update never replaces a cached state by an older one.
C19_Step ==
    \A handle \in Handles :
        InReadModifyWrite(handle)
        => LET key == KeyOf(threads[handle].cred_info)
           IN /\ threads'[handle] = threads[handle] => cache'[key] = cache[key]
              /\ (threads'[handle].pc = "idle" /\ ThreadBranch(threads[handle]) = "update"
                  /\ IsSome(cache[key]))
                 => Unwrap(cache'[key]).timestamp >= Unwrap(cache[key]).timestamp
C19_MutualExclusion == [][C19_Step]_vars

\* ------------------------------------------------ _get_revocation_interval
\* The proof requests _get_revocation_interval is asked about: each of the two
\* maps holds any subset of RequestedKeys, each entry and the request itself
\* with or without a non_revoked interval.
RequestedKeys == {"address1_1", "zip_2"}
RequestIntervals ==
    { [from |-> None, to |-> Some(1)],
      [from |-> Some(1), to |-> Some(MaxTime)],
      [from |-> Some(0), to |-> None] }
RequestedMaps ==
    UNION { [keys -> [non_revoked : Opt(RequestIntervals)]] : keys \in SUBSET RequestedKeys }
ProofRequests ==
    [requested_attributes : RequestedMaps, requested_predicates : RequestedMaps,
     non_revoked : Opt(RequestIntervals)]

InitResolution ==
    /\ cache = EmptyCache
    /\ rs = IdleCall
    /\ it = NoIteration
    /\ HANDLE_MAP = [h \in Handles |-> None]
    /\ inbox = [h \in Handles |-> << >>]
    /\ outbox = [h \in Handles |-> << >>]
    /\ last = NoCall
    /\ threads = [h \in Handles |-> IdleThread]
    /\ resolution \in { [NoResolution EXCEPT !.pc = "called", !.attr_name = attr_name,
                                             !.proof_req = proof_req] :
                          attr_name \in AttrKeys, proof_req \in ProofRequests }
    /\ pipeline = NoPureCall
    /\ built = NoPureCall
    /\ identifiers = NoPureCall
    /\ requested = NoPureCall
    /\ filtered = NoPureCall

\* line 98-107: the call returns
get_revocation_interval_call ==
    /\ resolution.pc = "called"
    /\ resolution' = [resolution EXCEPT
          !.pc = "returned",
          !.out = get_revocation_interval(resolution.attr_name, resolution.proof_req)]
    /\ UNCHANGED << revVars, proverVars, threads, pureVars >>

NextResolution == get_revocation_interval_call

SpecResolution == InitResolution /\ [][NextResolution]_vars

\* What an entry found for the key resolves to: its own non_revoked when set,
\* else the request-level one when set, else None.
Resolved(entry, proof_req) ==
    IF IsSome(entry.non_revoked) THEN entry.non_revoked
    ELSE IF IsSome(proof_req.non_revoked) THEN proof_req.non_revoked
    ELSE None

\* C20: _get_revocation_interval fails with InvalidProofCredentialData exactly
\* when the key is in neither map; otherwise it returns what the attribute
\* entry resolves to when the key is in requested_attributes (also when it is
\* in both maps), and what the predicate entry resolves to when it is only in
\* requested_predicates.
C20_IntervalResolution ==
    resolution.pc = "returned"
    => LET k == resolution.attr_name
           req == resolution.proof_req
           out == resolution.out
           inAttributes == k \in DOMAIN req.requested_attributes
           inPredicates == k \in DOMAIN req.requested_predicates
       IN /\ (~inAttributes /\ ~inPredicates)
                => out = [err |-> "InvalidProofCredentialData", interval |-> None]
          /\ inAttributes
                => out = [err |-> "", interval |-> Resolved(req.requested_attributes[k], req)]
          /\ (inPredicates /\ ~inAttributes)
                => out = [err |-> "", interval |-> Resolved(req.requested_predicates[k], req)]

\* The key is in both maps with different intervals and the request has a
\* third: the attribute entry's interval was returned.
C20_Witness ==
    /\ resolution.pc = "returned"
    /\ resolution.attr_name \in DOMAIN resolution.proof_req.requested_attributes
    /\ resolution.attr_name \in DOMAIN resolution.proof_req.requested_predicates
    /\ LET k == resolution.attr_name
           req == resolution.proof_req
       IN /\ IsSome(req.requested_attributes[k].non_revoked)
          /\ IsSome(req.requested_predicates[k].non_revoked)
          /\ IsSome(req.non_revoked)
          /\ req.requested_attributes[k].non_revoked # req.requested_predicates[k].non_revoked
          /\ req.requested_attributes[k].non_revoked # req.non_revoked
          /\ resolution.out.interval = req.requested_attributes[k].non_revoked

\* ---------------------------------------------- credential_def_identifiers
\* The JSON values found under the keys the function indexes.  Indexing a
\* serde_json Value by a key it lacks gives Null, so an absent key and a null
\* are one value here.
JsonNull == [kind |-> "null", s |-> ""]
JsonNumber == [kind |-> "number", s |-> ""]
JsonString(s) == [kind |-> "string", s |-> s]

\* line 62-64, 65-75: Value::as_str
as_str(value) == IF value.kind = "string" THEN Some(value.s) ELSE None

\* The entries of the attrs object: the two shapes the wallet hands out, the
\* entry with a null rev_reg_id, and entries with one of the required fields
\* absent, null or a number.
GoodEntry ==
    [referent |-> JsonString("cred1"), schema_id |-> JsonString("schema1"),
     cred_def_id |-> JsonString("cred_def1"), rev_reg_id |-> JsonNull,
     cred_rev_id |-> JsonNull, tails_file |-> JsonNull]
GoodRevocableEntry ==
    [GoodEntry EXCEPT !.rev_reg_id = JsonString("rev1"), !.cred_rev_id = JsonString("cr1"),
                      !.tails_file = JsonString("tails")]
JsonEntries ==
    { GoodEntry, GoodRevocableEntry,
      [GoodRevocableEntry EXCEPT !.rev_reg_id = JsonNull],
      [GoodEntry EXCEPT !.referent = JsonNull],
      [GoodEntry EXCEPT !.referent = JsonNumber],
      [GoodEntry EXCEPT !.schema_id = JsonNull],
      [GoodRevocableEntry EXCEPT !.schema_id = JsonNumber],
      [GoodEntry EXCEPT !.cred_def_id = JsonNull],
      [GoodEntry EXCEPT !.cred_def_id = JsonNumber],
      [GoodEntry EXCEPT !.referent = JsonNull, !.schema_id = JsonNull,
                        !.cred_def_id = JsonNull] }

\* The credentials strings: one that is no JSON, JSON whose "attrs" is absent
\* or no object, and JSON with an attrs object over any subset of the keys;
\* beside "attrs" the JSON may hold a "predicates" object with an entry of
\* its own.
JsonAttrs == UNION { [keys -> JsonEntries] : keys \in SUBSET AttrKeys }
JsonPredicates == { << >>, [k \in {"height_1"} |-> GoodRevocableEntry] }
CredentialsStrings ==
    { [json |-> FALSE, attrs_kind |-> "null", attrs |-> << >>, predicates |-> << >>] }
    \cup [json : {TRUE}, attrs_kind : {"null", "number"}, attrs : {<< >>},
          predicates : JsonPredicates]
    \cup [json : {TRUE}, attrs_kind : {"object"}, attrs : JsonAttrs,
          predicates : JsonPredicates]

\* A variant of ParsedCredentials that walks the entries under "predicates"
\* as well as those under "attrs".
ParsedCredentialsWithPredicates(credentials) ==
    LET walked == IF credentials.json /\ credentials.attrs_kind = "object"
                  THEN credentials.predicates @@ credentials.attrs
                  ELSE << >>
    IN [json |-> credentials.json,
        attrs |-> [k \in DOMAIN walked |->
                     [f \in DOMAIN walked[k] |-> as_str(walked[k][f])]]]

\* line 57-60: what the function has after parsing and `credentials["attrs"]`
ParsedCredentials(credentials) ==
    [json |-> credentials.json,
     attrs |-> IF credentials.json /\ credentials.attrs_kind = "object"
               THEN [k \in DOMAIN credentials.attrs |->
                       [f \in DOMAIN credentials.attrs[k] |-> as_str(credentials.attrs[k][f])]]
               ELSE << >>]

\* The proof requests the selected credentials are matched against.
IdentifierRequests ==
    { TheProofRequest,
      [TheProofRequest EXCEPT !.requested_predicates =
          [k \in {"height_1"} |-> [non_revoked |-> Some([from |-> Some(0), to |-> None])]]],
      [requested_attributes |-> [k \in AttrKeys |-> [non_revoked |-> None]],
       requested_predicates |-> [k \in {} |-> [non_revoked |-> None]],
       non_revoked |-> None],
      [requested_attributes |-> [k \in {} |-> [non_revoked |-> None]],
       requested_predicates |-> [k \in {} |-> [non_revoked |-> None]],
       non_revoked |-> None] }

InitIdentifiers ==
    /\ cache = EmptyCache
    /\ rs = IdleCall
    /\ it = NoIteration
    /\ HANDLE_MAP = [h \in Handles |-> None]
    /\ inbox = [h \in Handles |-> << >>]
    /\ outbox = [h \in Handles |-> << >>]
    /\ last = NoCall
    /\ threads = [h \in Handles |-> IdleThread]
    /\ resolution = NoResolution
    /\ pipeline = NoPureCall
    /\ built = NoPureCall
    /\ identifiers \in [pc : {"called"}, credentials : CredentialsStrings,
                        proof_req : IdentifierRequests,
                        out : {[err |-> "", rtn |-> << >>]}]
    /\ requested = NoPureCall
    /\ filtered = NoPureCall

\* line 54-96: the call returns
credential_def_identifiers_call ==
    /\ identifiers.pc = "called"
    /\ identifiers' = [identifiers EXCEPT
          !.pc = "returned",
          !.out = credential_def_identifiers(ParsedCredentials(identifiers.credentials),
                                             identifiers.proof_req)]
    /\ UNCHANGED << revVars, proverVars, threads, resolution, requested, filtered, pipeline, built >>

NextIdentifiers == credential_def_identifiers_call

SpecIdentifiers == InitIdentifiers /\ [][NextIdentifiers]_vars

\* The keys of the attrs object the function walks (none when "attrs" is
\* absent or no object).
WalkedKeys(credentials) ==
    IF credentials.attrs_kind = "object" THEN DOMAIN credentials.attrs ELSE {}

\* An entry lacks referent, schema_id or cred_def_id: absent, null or no string.
LacksField(entry) ==
    \E f \in {"referent", "schema_id", "cred_def_id"} : entry[f].kind # "string"

\* The key is in neither map of the proof request.
NotRequested(k, proof_req) ==
    /\ k \notin DOMAIN proof_req.requested_attributes
    /\ k \notin DOMAIN proof_req.requested_predicates

\* C21: credential_def_identifiers fails with InvalidJson on input that is no
\* JSON; with InvalidProofCredentialData when an attrs entry lacks referent,
\* schema_id or cred_def_id, or when an attrs key is in neither map of the
\* request; returns the empty list without error when attrs is empty or
\* absent; returns no list on failure; and otherwise returns one record per
\* attrs key, in key order.
C21_ErrorOutcomes ==
    identifiers.pc = "returned"
    => LET credentials == identifiers.credentials
           proof_req == identifiers.proof_req
           out == identifiers.out
           keys == WalkedKeys(credentials)
           bad == \E k \in keys : LacksField(credentials.attrs[k]) \/ NotRequested(k, proof_req)
       IN /\ ~credentials.json => out = [err |-> "InvalidJson", rtn |-> << >>]
          /\ (credentials.json /\ keys = {}) => out = [err |-> "", rtn |-> << >>]
          /\ (credentials.json /\ bad)
                => out = [err |-> "InvalidProofCredentialData", rtn |-> << >>]
          /\ out.err # "" => out.rtn = << >>
          /\ (credentials.json /\ ~bad)
                => /\ out.err = ""
                   /\ Len(out.rtn) = Cardinality(keys)
                   /\ \A i \in 1..Len(out.rtn) :
                         /\ out.rtn[i].requested_attr \in keys
                         /\ out.rtn[i].referent = credentials.attrs[out.rtn[i].requested_attr].referent.s
                         /\ out.rtn[i].timestamp = None
                         /\ \A j \in 1..Len(out.rtn) : i # j => out.rtn[i].requested_attr # out.rtn[j].requested_attr

\* The first key's entry was usable and a later one lacked a field: the call
\* failed and returned nothing of the first.
C21_Witness ==
    /\ identifiers.pc = "returned"
    /\ identifiers.credentials.json
    /\ identifiers.credentials.attrs_kind = "object"
    /\ DOMAIN identifiers.credentials.attrs = {"address1_1", "zip_2"}
    /\ ~LacksField(identifiers.credentials.attrs["address1_1"])
    /\ ~NotRequested("address1_1", identifiers.proof_req)
    /\ LacksField(identifiers.credentials.attrs["zip_2"])
    /\ identifiers.out = [err |-> "InvalidProofCredentialData", rtn |-> << >>]

\* ---------------------------------------- build_requested_credentials_json
\* The records handed in: any vector of up to MaxCreds records, over every key,
\* two wallet credentials, and stamped or not.
RequestedCreds ==
    [requested_attr : AttrKeys, referent : {"cred1", "cred2"},
     schema_id : {"schema1"}, cred_def_id : {"cred_def1"},
     revocation_interval : {None}, timestamp : Opt({0, MaxTime}),
     rev_reg_id : {None}, cred_rev_id : {None}, tails_file : {None}]
RequestedVectors == UNION { [1..n -> RequestedCreds] : n \in 0..MaxCreds }

\* The proof requests: each map holds any subset of two of the keys, so a key
\* can be in one map, in the other, in both, or (always so for the third key)
\* in neither.
RequestedRequestMaps ==
    UNION { [keys -> {[non_revoked |-> None]}] : keys \in SUBSET {"address1_1", "height_1"} }
RequestedRequests ==
    [requested_attributes : RequestedRequestMaps,
     requested_predicates : RequestedRequestMaps, non_revoked : {None}]

\* The self_attested_attrs strings: no JSON, the empty object, an object.
SelfAttestedStrings ==
    SelfAttested \cup { [json |-> TRUE, value |-> "{self_attested_attr_3}"] }

InitRequested ==
    /\ cache = EmptyCache
    /\ rs = IdleCall
    /\ it = NoIteration
    /\ HANDLE_MAP = [h \in Handles |-> None]
    /\ inbox = [h \in Handles |-> << >>]
    /\ outbox = [h \in Handles |-> << >>]
    /\ last = NoCall
    /\ threads = [h \in Handles |-> IdleThread]
    /\ resolution = NoResolution
    /\ pipeline = NoPureCall
    /\ built = NoPureCall
    /\ identifiers = NoPureCall
    /\ requested \in [pc : {"called"}, credentials_identifiers : RequestedVectors,
                      self_attested_attrs : SelfAttestedStrings,
                      proof_req : RequestedRequests,
                      out : {[err |-> "", rtn |-> << >>]}]
    /\ filtered = NoPureCall

\* line 212-245: the call returns
build_requested_credentials_json_call ==
    /\ requested.pc = "called"
    /\ requested' = [requested EXCEPT
          !.pc = "returned",
          !.out = build_requested_credentials_json(requested.credentials_identifiers,
                      requested.self_attested_attrs, requested.proof_req)]
    /\ UNCHANGED << revVars, proverVars, threads, resolution, identifiers, filtered, pipeline, built >>

NextRequested == build_requested_credentials_json_call

SpecRequested == InitRequested /\ [][NextRequested]_vars

\* The call returned without error.
RequestedOk == requested.pc = "returned" /\ requested.out.err = ""

\* The keys of the records handed in.
RecordKeys ==
    { requested.credentials_identifiers[i].requested_attr :
        i \in 1..Len(requested.credentials_identifiers) }

\* C22 as stated: a record is among the requested_attributes iff its key is in
\* the request's requested_attributes, otherwise among the requested_predicates
\* iff its key is in the request's requested_predicates, and no key is in both
\* maps of the output.
C22_PlacementAsStated ==
    RequestedOk
    => LET out == requested.out.rtn
           req == requested.proof_req
       IN /\ \A k \in RecordKeys :
                /\ k \in DOMAIN out.requested_attributes
                      <=> k \in DOMAIN req.requested_attributes
                /\ k \in DOMAIN out.requested_predicates
                      <=> (k \notin DOMAIN req.requested_attributes
                           /\ k \in DOMAIN req.requested_predicates)
          /\ DOMAIN out.requested_attributes \cap DOMAIN out.requested_predicates = {}

\* C22: the two maps of the output are filled independently: a record is among
\* the requested_attributes iff its key is in the request's
\* requested_attributes, and among the requested_predicates iff its key is in
\* the request's requested_predicates; so a record whose key is in both maps
\* of the request is in both maps of the output, and one whose key is in
\* neither is in neither.
C22_Placement ==
    RequestedOk
    => LET out == requested.out.rtn
           req == requested.proof_req
       IN /\ DOMAIN out.requested_attributes
                = RecordKeys \cap DOMAIN req.requested_attributes
          /\ DOMAIN out.requested_predicates
                = RecordKeys \cap DOMAIN req.requested_predicates
          /\ DOMAIN out.requested_attributes \cap DOMAIN out.requested_predicates
                = RecordKeys \cap DOMAIN req.requested_attributes
                             \cap DOMAIN req.requested_predicates

\* Records were handed in, one with its key in both maps of the
\* request and one with its key in neither: the first is in both maps of the
\* output, the second in none.
C22_Witness ==
    /\ RequestedOk
    /\ RecordKeys = {"address1_1", "zip_2"}
    /\ "address1_1" \in DOMAIN requested.proof_req.requested_attributes
    /\ "address1_1" \in DOMAIN requested.proof_req.requested_predicates
    /\ DOMAIN requested.out.rtn.requested_attributes = {"address1_1"}
    /\ DOMAIN requested.out.rtn.requested_predicates = {"address1_1"}

\* The record that decides the entry of key k: the last one with that key
\* (map.insert at lines 225 and 234 replaces an earlier entry).
DecidingRecord(k) ==
    LET v == requested.credentials_identifiers
        i == CHOOSE i \in 1..Len(v) :
                /\ v[i].requested_attr = k
                /\ \A j \in 1..Len(v) : v[j].requested_attr = k => j <= i
    IN v[i]

\* C23: a self_attested_attrs string that is no JSON fails with InvalidJson;
\* otherwise the output has exactly the keys self_attested_attributes,
\* requested_attributes and requested_predicates, the first being the parsed
\* self_attested_attrs; every requested_attributes entry is {cred_id: referent,
\* revealed: true, timestamp} and every requested_predicates entry is
\* {cred_id: referent, timestamp} with no revealed, the timestamp being the
\* record's (null when it is None).
C23_Content ==
    requested.pc = "returned"
    => LET out == requested.out
       IN IF ~requested.self_attested_attrs.json
          THEN out = [err |-> "InvalidJson", rtn |-> << >>]
          ELSE /\ out.err = ""
               /\ DOMAIN out.rtn = {"self_attested_attributes", "requested_attributes",
                                    "requested_predicates"}
               /\ out.rtn.self_attested_attributes = requested.self_attested_attrs.value
               /\ \A k \in DOMAIN out.rtn.requested_attributes :
                     out.rtn.requested_attributes[k]
                        = [cred_id |-> DecidingRecord(k).referent, revealed |-> Some(TRUE),
                           timestamp |-> DecidingRecord(k).timestamp]
               /\ \A k \in DOMAIN out.rtn.requested_predicates :
                     out.rtn.requested_predicates[k]
                        = [cred_id |-> DecidingRecord(k).referent, revealed |-> None,
                           timestamp |-> DecidingRecord(k).timestamp]

\* An attribute entry with a timestamp and a predicate entry with a null one.
C23_Witness ==
    /\ RequestedOk
    /\ requested.out.rtn.self_attested_attributes = "{self_attested_attr_3}"
    /\ \E k \in DOMAIN requested.out.rtn.requested_attributes :
          requested.out.rtn.requested_attributes[k].timestamp = Some(MaxTime)
    /\ \E k \in DOMAIN requested.out.rtn.requested_predicates :
          requested.out.rtn.requested_predicates[k].timestamp = None

\* ------------------------------------------- filter_proof_requests_by_name
\* The attachment of a presentation request: base64 that does not decode,
\* base64 of something that is no JSON, or base64 of a JSON value whose "name"
\* is absent (null), a number, or a string.
Attachments ==
    { [kind |-> "no_base64", name |-> JsonNull], [kind |-> "no_json", name |-> JsonNull] }
    \cup [kind : {"json"},
          name : {JsonNull, JsonNumber, JsonString(""), JsonString("request1"),
                  JsonString("request2")}]

\* An element of the array as it is written: "@id", the attachment, and
\* whether it carries keys PresentationRequest has no field for ("@type").
RequestIds == {"id1", "id2"}
RequestJsons == [id : RequestIds, attach : Attachments, extra : BOOLEAN]

\* The requests strings: one that is no JSON array of PresentationRequests,
\* and the arrays of up to MaxRequests elements.
RequestsStrings ==
    { [json |-> FALSE, items |-> << >>] }
    \cup [json : {TRUE}, items : UNION { [1..n -> RequestJsons] : n \in 0..MaxRequests }]
MatchNames == {"", "request1", "not there"}

\* filters.rs line 10: a PresentationRequest deserialised from its JSON keeps
\* the fields the struct has
PresentationRequestOf(json) == [id |-> json.id, attach |-> json.attach]

\* filters.rs line 31: a PresentationRequest serialised has its fields only
JsonOf(presentation_request) ==
    [id |-> presentation_request.id, attach |-> presentation_request.attach, extra |-> FALSE]

\* A variant of NameOf for which an attachment that does not decode has the
\* empty name.
NameOfUndecoded(presentation_request) ==
    IF presentation_request.attach.kind = "json"
    THEN Some(UnwrapOr(as_str(presentation_request.attach.name), ""))
    ELSE Some("")

\* A variant of NameOf for which JSON without a string under "name" has no name.
NameOfStrict(presentation_request) ==
    IF presentation_request.attach.kind = "json"
    THEN as_str(presentation_request.attach.name)
    ELSE None

\* filters.rs line 15-17: the name the attachment is matched by, None when
\* content() or the JSON parse fails
NameOf(presentation_request) ==
    IF presentation_request.attach.kind = "json"
    THEN Some(UnwrapOr(as_str(presentation_request.attach.name), ""))
    ELSE None

\* filters.rs line 9-27
filter_proof_requests_by_name_inner(requests, match_name) ==
    IF ~requests.json THEN [err |-> "InvalidJson", rtn |-> << >>]
    ELSE LET presentation_requests ==
                 [i \in 1..Len(requests.items) |-> PresentationRequestOf(requests.items[i])]
             Keep(presentation_request) == NameOf(presentation_request) = Some(match_name)
         IN [err |-> "", rtn |-> SelectSeq(presentation_requests, Keep)]

\* A variant of filter_proof_requests_by_name that writes each request out
\* with the decoded content in the place of its attachment.
filter_proof_requests_by_name_decoded(requests, name) ==
    LET presentation_requests == filter_proof_requests_by_name_inner(requests, name)
    IN IF presentation_requests.err # ""
       THEN [err |-> presentation_requests.err, rtn |-> [json |-> FALSE, items |-> << >>]]
       ELSE [err |-> "",
             rtn |-> [json |-> TRUE,
                      items |-> [i \in 1..Len(presentation_requests.rtn) |->
                                   [JsonOf(presentation_requests.rtn[i]) EXCEPT
                                       !.attach.kind = "no_base64"]]]]

\* filters.rs line 29-34
filter_proof_requests_by_name(requests, name) ==
    LET presentation_requests == filter_proof_requests_by_name_inner(requests, name)
    IN IF presentation_requests.err # ""
       THEN [err |-> presentation_requests.err, rtn |-> [json |-> FALSE, items |-> << >>]]
       ELSE [err |-> "",
             rtn |-> [json |-> TRUE,
                      items |-> [i \in 1..Len(presentation_requests.rtn) |->
                                   JsonOf(presentation_requests.rtn[i])]]]

InitFiltered ==
    /\ cache = EmptyCache
    /\ rs = IdleCall
    /\ it = NoIteration
    /\ HANDLE_MAP = [h \in Handles |-> None]
    /\ inbox = [h \in Handles |-> << >>]
    /\ outbox = [h \in Handles |-> << >>]
    /\ last = NoCall
    /\ threads = [h \in Handles |-> IdleThread]
    /\ resolution = NoResolution
    /\ pipeline = NoPureCall
    /\ built = NoPureCall
    /\ identifiers = NoPureCall
    /\ requested = NoPureCall
    /\ filtered \in [pc : {"called"}, requests : RequestsStrings, name : MatchNames,
                     inner : {[err |-> "", rtn |-> << >>]},
                     out : {[err |-> "", rtn |-> [json |-> FALSE, items |-> << >>]]},
                     again : {[err |-> "", rtn |-> [json |-> FALSE, items |-> << >>]]}]

\* filters.rs line 9-34: the call returns; `inner` is what
\* _filter_proof_requests_by_name gave, `out` the string made of it
filter_proof_requests_by_name_call ==
    /\ filtered.pc = "called"
    /\ filtered' = [filtered EXCEPT
          !.pc = "returned",
          !.inner = filter_proof_requests_by_name_inner(filtered.requests, filtered.name),
          !.out = filter_proof_requests_by_name(filtered.requests, filtered.name)]
    /\ UNCHANGED << revVars, proverVars, threads, resolution, identifiers, requested, pipeline, built >>

\* filters.rs line 29-34: a second call, on the string the first returned
filter_proof_requests_by_name_again ==
    /\ filtered.pc = "returned"
    /\ filtered.out.err = ""
    /\ filtered' = [filtered EXCEPT
          !.pc = "returned_again",
          !.again = filter_proof_requests_by_name(filtered.out.rtn, filtered.name)]
    /\ UNCHANGED << revVars, proverVars, threads, resolution, identifiers, requested, pipeline, built >>

NextFiltered ==
    \/ filter_proof_requests_by_name_call
    \/ filter_proof_requests_by_name_again

SpecFiltered == InitFiltered /\ [][NextFiltered]_vars

\* The requests of the array handed in, as PresentationRequests, in input order.
GivenRequests ==
    [i \in 1..Len(filtered.requests.items) |-> PresentationRequestOf(filtered.requests.items[i])]

\* The attachment decodes to JSON whose top-level "name" is the string n.
NamedExactly(presentation_request, n) ==
    /\ presentation_request.attach.kind = "json"
    /\ presentation_request.attach.name = JsonString(n)

\* The attachment decodes to JSON that has no string under "name".
Nameless(presentation_request) ==
    /\ presentation_request.attach.kind = "json"
    /\ presentation_request.attach.name.kind # "string"

\* The attachment fails base64 or JSON decoding.
Undecodable(presentation_request) == presentation_request.attach.kind # "json"

V3_OBJECT_SERIALIZE_VERSION == "2.0"
DisclosedProofs_V3(prover) ==
    [version |-> Some(V3_OBJECT_SERIALIZE_VERSION), data |-> Some(prover)]

\* line 332-337
to_string(handle) ==
    IF IsSome(HANDLE_MAP[handle])
    THEN [err |-> "", data |-> Some(DisclosedProofs_V3(Unwrap(HANDLE_MAP[handle])))]
    ELSE [err |-> "InvalidHandle", data |-> None]

\* line 471-475
get_source_id(handle) ==
    IF IsSome(HANDLE_MAP[handle])
    THEN [err |-> "", source_id |-> Unwrap(HANDLE_MAP[handle]).source_id]
    ELSE [err |-> "InvalidDisclosedProofHandle", source_id |-> ""]

\* Strings from_string is given that to_string does not write: another
\* version, no version, data that is no Prover, no data, and "{}".
MalformedProver == [source_id |-> "degree"]
OtherEnvelopes ==
    { [version |-> Some("1.0"), data |-> Some(Prover_create("degree"))],
      [version |-> None, data |-> Some(Prover_create("degree"))],
      [version |-> Some(V3_OBJECT_SERIALIZE_VERSION), data |-> Some(MalformedProver)],
      [version |-> Some(V3_OBJECT_SERIALIZE_VERSION), data |-> None],
      [version |-> None, data |-> None] }

\* A variant of DisclosedProofs_from_str that takes any version.
DisclosedProofs_from_str_any_version(proof_data) ==
    IF /\ IsSome(proof_data.data)
       /\ DOMAIN Unwrap(proof_data.data) = DOMAIN Prover_create("degree")
    THEN [err |-> "", proof |-> proof_data.data]
    ELSE [err |-> "InvalidJson", proof |-> None]

\* line 340-341: serde_json::from_str::<DisclosedProofs>: the tag has to name
\* the one variant, "2.0", and the content has to be a Prover
DisclosedProofs_from_str(proof_data) ==
    IF /\ proof_data.version = Some(V3_OBJECT_SERIALIZE_VERSION)
       /\ IsSome(proof_data.data)
       /\ DOMAIN Unwrap(proof_data.data) = DOMAIN Prover_create("degree")
    THEN [err |-> "", proof |-> proof_data.data]
    ELSE [err |-> "InvalidJson", proof |-> None]

\* line 332-337: the call returns the string, or fails on a handle without object
to_string_call(handle) ==
    /\ last' = [NoCall EXCEPT !.op = "to_string", !.handle = handle,
                              !.result = IF to_string(handle).err = "" THEN "Ok"
                                         ELSE to_string(handle).err,
                              !.before = HANDLE_MAP[handle],
                              !.data = to_string(handle).data]
    /\ UNCHANGED << revVars, callVars, HANDLE_MAP, inbox, outbox >>

\* from_string storing a new machine for the source_id in place of the one read
from_string_restarted(proof_data, handle) ==
    LET parsed == DisclosedProofs_from_str(proof_data)
    IN /\ IF parsed.err # ""
          THEN /\ last' = [NoCall EXCEPT !.op = "from_string", !.result = parsed.err,
                                         !.data = Some(proof_data)]
               /\ UNCHANGED HANDLE_MAP
          ELSE /\ IsNone(HANDLE_MAP[handle])
               /\ HANDLE_MAP' = [HANDLE_MAP EXCEPT ![handle] =
                                    Some(Prover_create(Unwrap(parsed.proof).source_id))]
               /\ last' = [NoCall EXCEPT !.op = "from_string", !.handle = handle,
                                         !.result = "Ok", !.data = Some(proof_data)]
       /\ UNCHANGED << revVars, callVars, inbox, outbox >>

\* line 339-347: a string that does not parse is InvalidJson; else the Prover
\* read goes into the handle map under a handle not in use
from_string(proof_data, handle) ==
    LET parsed == DisclosedProofs_from_str(proof_data)
    IN /\ IF parsed.err # ""
          THEN /\ last' = [NoCall EXCEPT !.op = "from_string", !.result = parsed.err,
                                         !.data = Some(proof_data)]
               /\ UNCHANGED HANDLE_MAP
          ELSE /\ IsNone(HANDLE_MAP[handle])
               /\ HANDLE_MAP' = [HANDLE_MAP EXCEPT ![handle] = parsed.proof]
               /\ last' = [NoCall EXCEPT !.op = "from_string", !.handle = handle,
                                         !.result = "Ok", !.data = Some(proof_data)]
       /\ UNCHANGED << revVars, callVars, inbox, outbox >>

\* The strings handed to from_string: what to_string writes for the Provers
\* now in the handle map, and the other envelopes.
ProofDataStrings ==
    { Unwrap(to_string(h).data) : h \in { g \in Handles : IsSome(HANDLE_MAP[g]) } }
    \cup OtherEnvelopes

\* The messages update_state is handed directly.
GivenMessages == { Some("Ack"), Some("ProblemReport"), Some("Presentation") }

InitSerialize == Init

NextSerialize ==
    \/ \E source_id \in SourceIds, parses \in BOOLEAN, handle \in TrackedHandles :
          create_proof(source_id, parses, handle)
    \/ \E handle \in Handles, fail \in {"none", "create_proof"} :
          generate_proof(handle, PlainSelection, PlainSelfAttested,
                         [r \in RevRegIds |-> PlainAnswer], fail)
    \/ \E handle \in Handles : \E delivered \in InputsOf(handle, BOOLEAN, TRUE) :
          send_proof(handle, delivered)
    \/ \E handle \in Handles : reject_proof(handle)
    \/ \E handle \in Handles : \E message \in InputsOf(handle, GivenMessages, None) :
          update_state(handle, message, TRUE)
    \/ \E handle \in Handles : to_string_call(handle)
    \/ \E proof_data \in ProofDataStrings, handle \in Handles :
          from_string(proof_data, handle)

SpecSerialize == InitSerialize /\ [][NextSerialize]_vars

\* C27: from_string given what to_string writes for a handle h that holds a
\* Prover succeeds and stores a Prover under a handle that is not h, not 0 and
\* was not in use; get_state, get_presentation_status and get_source_id of the
\* new handle answer what they answer for h; and h holds what it held.
C27_Step ==
    \A h \in Handles :
        (IsSome(HANDLE_MAP[h]) /\ last'.op = "from_string" /\ last'.data = to_string(h).data)
        => /\ last'.result = "Ok"
           /\ last'.handle \in Handles \ {h}
           /\ last'.handle # 0
           /\ IsNone(HANDLE_MAP[last'.handle])
           /\ \E new \in Handles :
                 /\ new = last'.handle
                 /\ get_state(new)' = get_state(h)
                 /\ get_state(new)'.err = ""
                 /\ get_presentation_status(new)' = get_presentation_status(h)
                 /\ get_source_id(new)' = get_source_id(h)
           /\ get_state(h)' = get_state(h)
           /\ HANDLE_MAP'[h] = HANDLE_MAP[h]
C28_Step ==
    /\ (last'.op = "to_string" /\ last'.result = "Ok")
          => Unwrap(last'.data).version = Some("2.0")
    /\ last'.op = "from_string"
          => LET proof_data == Unwrap(last'.data)
                 accepted == /\ proof_data.version = Some("2.0")
                             /\ IsSome(proof_data.data)
                             /\ Unwrap(proof_data.data) # MalformedProver
             IN IF accepted
                THEN /\ last'.result = "Ok"
                     /\ HANDLE_MAP'[last'.handle] = proof_data.data
                ELSE /\ last'.result = "InvalidJson"
                     /\ HANDLE_MAP' = HANDLE_MAP
C28_Envelope == [][C28_Step]_vars

\* A string of version "1.0" was refused while a Prover was in the map.
C28_Witness ==
    /\ last.op = "from_string"
    /\ last.result = "InvalidJson"
    /\ Unwrap(last.data).version = Some("1.0")
    /\ IsSome(Unwrap(last.data).data)
    /\ IsSome(HANDLE_MAP[1])
    /\ IsNone(HANDLE_MAP[2])

\* C29: create_proof with a request that does not parse fails with
\* InvalidJson and leaves the handle map as it was; with a request that parses
\* it returns a handle that is not 0 and was not in use, under which a Prover
\* in RequestReceived holds the request, and leaves the other handles alone.
C29_Step ==
    \A source_id \in SourceIds, parses \in BOOLEAN, handle \in Handles :
        create_proof(source_id, parses, handle)
        => IF ~parses
           THEN /\ last'.result = "InvalidJson"
                /\ last'.handle = 0
                /\ HANDLE_MAP' = HANDLE_MAP
           ELSE /\ last'.result = "Ok"
                /\ last'.handle = handle
                /\ handle # 0
                /\ IsNone(HANDLE_MAP[handle])
                /\ IsSome(HANDLE_MAP'[handle])
                /\ Unwrap(HANDLE_MAP'[handle]).state = "PresentationRequestReceived"
                /\ Unwrap(HANDLE_MAP'[handle]).request = TheProofRequest
                /\ Unwrap(HANDLE_MAP'[handle]).source_id = source_id
                /\ Unwrap(HANDLE_MAP'[handle]).proof = None
                /\ \A other \in Handles \ {handle} : HANDLE_MAP'[other] = HANDLE_MAP[other]
C29_CreateProof == [][C29_Step]_vars

\* A request that does not parse was refused with no Prover in the map.
C29_Witness ==
    /\ last.op = "create_proof"
    /\ last.result = "InvalidJson"
    /\ \A handle \in Handles : IsNone(HANDLE_MAP[handle])

\* C30: an update_state that succeeds leaves a Prover in PresentationSent as
\* it was (state, request, proof, status; state code 2) when neither the message
\* it is handed nor any message it polls is an Ack or a ProblemReport, and
\* leaves a Prover in RequestReceived or PresentationPrepared as it was (state
\* code 3) whatever the message, an Ack or a ProblemReport included.
C30_Step ==
    \A handle \in Handles, message \in Opt(A2AKinds), downloaded \in BOOLEAN :
        (update_state(handle, message, downloaded) /\ last'.result = "Ok")
        => LET before == Unwrap(HANDLE_MAP[handle])
               polled == IF IsSome(message) THEN << Unwrap(message) >>
                         ELSE inbox[handle]
               answered == \E i \in DOMAIN polled : polled[i] \in {"Ack", "ProblemReport"}
           IN /\ (before.state = "PresentationSent" /\ ~answered)
                    => /\ HANDLE_MAP'[handle] = HANDLE_MAP[handle]
                       /\ last'.code = 2
              /\ before.state \in {"PresentationRequestReceived", "PresentationPrepared"}
                    => /\ HANDLE_MAP'[handle] = HANDLE_MAP[handle]
                       /\ last'.code = 3
              /\ \A other \in Handles \ {handle} : HANDLE_MAP'[other] = HANDLE_MAP[other]
C30_OthersIgnored == [][C30_Step]_vars

\* A Presentation was handed to a Prover in PresentationSent, which stayed.
C30_Witness ==
    /\ last.op = "update_state"
    /\ last.result = "Ok"
    /\ last.message = Some("Presentation")
    /\ IsSome(last.before)
    /\ Unwrap(last.before).state = "PresentationSent"
    /\ HANDLE_MAP[last.handle] = last.before

\* The pending messages the state machine has a transition for in
\* PresentationSent, in arrival order.
Answers(pending) == SelectSeq(pending, LAMBDA kind : kind \in {"Ack", "ProblemReport"})

\* The position of the first such message.
FirstAnswer(pending) ==
    CHOOSE i \in DOMAIN pending :
        /\ pending[i] \in {"Ack", "ProblemReport"}
        /\ \A j \in 1..(i - 1) : pending[j] \notin {"Ack", "ProblemReport"}

\* C31: an update_state that polls for a Prover in PresentationSent with an
\* Ack or a ProblemReport pending finishes the Prover with the status of the
\* one that arrived first (Ack: Success, ProblemReport: Failed) and stops
\* there, the messages that arrived after it staying pending; and an
\* update_state on a Prover that is already Finished, polling or handed a
\* message, changes neither its state nor its status.
C31_Step ==
    \A handle \in Handles, message \in Opt(A2AKinds) :
        (update_state(handle, message, TRUE) /\ last'.result = "Ok")
        => LET before == Unwrap(HANDLE_MAP[handle])
               after == Unwrap(HANDLE_MAP'[handle])
               pending == inbox[handle]
           IN /\ (before.state = "PresentationSent" /\ IsNone(message)
                  /\ Answers(pending) # << >>)
                    => /\ after.state = "Finished"
                       /\ after.status = IF Head(Answers(pending)) = "Ack"
                                         THEN "Success" ELSE "Failed"
                       /\ inbox'[handle] =
                             SubSeq(pending, FirstAnswer(pending) + 1, Len(pending))
              /\ before.state = "Finished" => after = before
DeltaRequested ==
    /\ LookedUp
    /\ it.branch = "update"
    /\ Len(it.calls) >= 2

\* C32: in the update arm with cached state s, the delta is asked for the
\* window (adjusted_from, to), `to` being the one of the interval, where
\* adjusted_from is Some(s.timestamp) when `from` is set and from >=
\* s.timestamp, and is None when `from` is unset or from < s.timestamp.
C32_DeltaWindow ==
    DeltaRequested
    => LET s == Unwrap(it.entry)
           from == IntervalFrom(it.cred_info)
       IN /\ IsSome(it.entry)
          /\ it.delta_to = IntervalTo(it.cred_info)
          /\ IsSome(it.delta_to)
          /\ (IsSome(from) /\ Unwrap(from) >= s.timestamp)
                => it.delta_from = Some(s.timestamp)
          /\ (IsNone(from) \/ Unwrap(from) < s.timestamp)
                => it.delta_from = None

\* A delta was asked from the cached timestamp on, with `from` equal to it:
\* the cached state is past `to`.
C32_Witness ==
    /\ DeltaRequested
    /\ IntervalFrom(it.cred_info) = Some(Unwrap(it.entry).timestamp)
    /\ it.delta_from = Some(Unwrap(it.entry).timestamp)
    /\ Unwrap(it.entry).timestamp > Unwrap(it.delta_to)

\* Value::as_str followed by map(to_string), written out: the string of a
\* JSON string, None for a null, an absent key and any other value.
NullCoalesced(value) == IF value.kind = "string" THEN Some(value.s) ELSE None

\* The record the extractor is to emit for key k of the attrs object.
RecordFor(k, credentials, proof_req) ==
    LET entry == credentials.attrs[k]
        found == IF k \in DOMAIN proof_req.requested_attributes
                 THEN proof_req.requested_attributes[k]
                 ELSE proof_req.requested_predicates[k]
    IN [requested_attr |-> k,
        referent |-> entry.referent.s,
        schema_id |-> entry.schema_id.s,
        cred_def_id |-> entry.cred_def_id.s,
        rev_reg_id |-> NullCoalesced(entry.rev_reg_id),
        cred_rev_id |-> NullCoalesced(entry.cred_rev_id),
        tails_file |-> NullCoalesced(entry.tails_file),
        revocation_interval |-> Resolved(found, proof_req),
        timestamp |-> None]

\* C33: when credential_def_identifiers succeeds, its list has one record per
\* key of the attrs object and no other: the record of key k has
\* requested_attr = k, the referent, schema_id and cred_def_id of the entry,
\* rev_reg_id, cred_rev_id and tails_file None when absent or null and the
\* string otherwise, the interval the resolver gives for k, and timestamp
\* None; an entry under "predicates" gets no record.
C33_ExtractorOutput ==
    (identifiers.pc = "returned" /\ identifiers.out.err = "")
    => LET credentials == identifiers.credentials
           proof_req == identifiers.proof_req
           rtn == identifiers.out.rtn
           keys == WalkedKeys(credentials)
       IN /\ Len(rtn) = Cardinality(keys)
          /\ \A k \in keys :
                \E i \in 1..Len(rtn) : rtn[i] = RecordFor(k, credentials, proof_req)
          /\ \A i \in 1..Len(rtn) : rtn[i].requested_attr \in keys

\* The call succeeded on an attrs object with a revocable entry and an entry
\* whose revocation fields are null, beside a predicates object whose key is
\* not in attrs.
C33_Witness ==
    /\ identifiers.pc = "returned"
    /\ identifiers.out.err = ""
    /\ Len(identifiers.out.rtn) = 2
    /\ identifiers.credentials.attrs_kind = "object"
    /\ DOMAIN identifiers.credentials.attrs = {"address1_1", "zip_2"}
    /\ identifiers.credentials.attrs["address1_1"] = GoodRevocableEntry
    /\ identifiers.credentials.attrs["zip_2"] = GoodEntry
    /\ DOMAIN identifiers.credentials.predicates = {"height_1"}
    /\ identifiers.proof_req = TheProofRequest

\* ------------------------------------------------------ generate_indy_proof
\* The entries of the selected credentials: revocable ones of either
\* registry, one without revocation data, one with a rev_reg_id but no tails
\* file, and one that lacks its schema_id.
PipelineEntries ==
    { RevocableEntry,
      [RevocableEntry EXCEPT !.referent = Some("cred3"), !.rev_reg_id = Some("rev2")],
      PlainEntry,
      [RevocableEntry EXCEPT !.referent = Some("cred4"), !.tails_file = None],
      [RevocableEntry EXCEPT !.schema_id = None] }
PipelineCredentials ==
    { [json |-> FALSE, attrs |-> << >>] }
    \cup [json : {TRUE},
          attrs : UNION { [keys -> PipelineEntries] : keys \in SUBSET AttrKeys }]

\* The cache a call finds: empty, or the first registry's state as created
\* at some time.
PipelineCaches ==
    { EmptyCache }
    \cup { set_rev_reg_cache(EmptyCache, "rev1", "cr1",
              [timestamp |-> t, value |-> [op |-> "create", at |-> t]]) : t \in Times }

\* The inputs of a call: every selection, request, cache and ledger answer
\* with the later steps succeeding, and around the plain selection each
\* self-attested string and each failure of a later step.
PipelineInputs ==
    [credentials : PipelineCredentials, self_attested_attrs : {PlainSelfAttested},
     proof_request : IdentifierRequests, cache : PipelineCaches,
     ledger : { [r \in RevRegIds |-> a] : a \in LedgerAnswers }, fail : {"none"}]
    \cup
    [credentials : {PlainSelection}, self_attested_attrs : SelfAttested,
     proof_request : {TheProofRequest}, cache : {EmptyCache},
     ledger : { [r \in RevRegIds |-> PlainAnswer] }, fail : PipelineFails]

InitPipeline ==
    /\ rs = IdleCall
    /\ it = NoIteration
    /\ HANDLE_MAP = [h \in Handles |-> None]
    /\ inbox = [h \in Handles |-> << >>]
    /\ outbox = [h \in Handles |-> << >>]
    /\ last = NoCall
    /\ threads = [h \in Handles |-> IdleThread]
    /\ resolution = NoResolution
    /\ built = NoPureCall
    /\ identifiers = NoPureCall
    /\ requested = NoPureCall
    /\ filtered = NoPureCall
    /\ \E in \in PipelineInputs :
          /\ cache = in.cache
          /\ pipeline = [pc |-> "called", in |-> in,
                         out |-> [err |-> "", proof |-> None, cache |-> in.cache,
                                  steps |-> << >>, passed |-> None]]

\* line 247-278: the call returns
generate_indy_proof_call ==
    /\ pipeline.pc = "called"
    /\ LET in == pipeline.in
           out == generate_indy_proof(in.credentials, in.self_attested_attrs,
                                      in.proof_request, cache, in.ledger, in.fail)
       IN /\ pipeline' = [pipeline EXCEPT !.pc = "returned", !.out = out]
          /\ cache' = out.cache
    /\ UNCHANGED << rs, it, proverVars, threads, resolution, identifiers, requested,
                    filtered, built >>

NextPipeline == generate_indy_proof_call

SpecPipeline == InitPipeline /\ [][NextPipeline]_vars

\* The step of the pipeline that fails first for the inputs of the call, 0
\* when none does, and the error it fails with.
FirstFailure(in) ==
    LET extracted == credential_def_identifiers(in.credentials, in.proof_request)
        revoc == build_rev_states_json(extracted.rtn, in.cache, in.ledger)
        assembled == build_requested_credentials_json(revoc.creds, in.self_attested_attrs,
                                                      in.proof_request)
    IN  IF extracted.err # "" THEN [step |-> 1, err |-> extracted.err]
        ELSE IF revoc.err # "" THEN [step |-> 2, err |-> revoc.err]
        ELSE IF assembled.err # "" THEN [step |-> 3, err |-> assembled.err]
        ELSE IF in.fail = "schemas" THEN [step |-> 4, err |-> "InvalidSchema"]
        ELSE IF in.fail = "cred_defs" THEN [step |-> 5, err |-> "InvalidProofCredentialData"]
        ELSE IF in.fail = "create_proof" THEN [step |-> 6, err |-> "LibindyError"]
        ELSE [step |-> 0, err |-> ""]

\* C34: generate_indy_proof calls extraction, the revocation-state builder,
\* the requested-credentials assembly, the schema and the cred-def
\* aggregation and the crypto create_proof in this order and stops at the
\* first that fails, returning its error; create_proof is called at most
\* once, and never when an earlier step failed.
C34_PipelineOrder ==
    pipeline.pc = "returned"
    => LET out == pipeline.out
           first == FirstFailure(pipeline.in)
           proving == { i \in DOMAIN out.steps : out.steps[i] = "libindy_prover_create_proof" }
       IN /\ Len(out.steps) \in 1..Len(PipelineSteps)
          /\ out.steps = SubSeq(PipelineSteps, 1, Len(out.steps))
          /\ Cardinality(proving) <= 1
          /\ first.step \in 1..5
                => /\ out.err = first.err
                   /\ Len(out.steps) = first.step
                   /\ proving = {}
                   /\ out.passed = None
                   /\ out.proof = None
          /\ first.step \in {0, 6}
                => /\ out.err = first.err
                   /\ proving = {Len(PipelineSteps)}
                   /\ IsSome(out.passed)
                   /\ IsSome(out.proof) <=> first.step = 0

\* The self-attested attributes were no JSON: the call stopped at the
\* assembly of the requested credentials with InvalidJson.
C34_Witness ==
    /\ pipeline.pc = "returned"
    /\ ~pipeline.in.self_attested_attrs.json
    /\ pipeline.out.err = "InvalidJson"
    /\ pipeline.out.steps = SubSeq(PipelineSteps, 1, 3)
    /\ pipeline.out.passed = None

\* The entries placed in the requested credentials passed to create_proof,
\* by key; a key in both maps has the same credential behind both entries.
Placed(passed) ==
    LET attributes == passed.requested_credentials.requested_attributes
        predicates == passed.requested_credentials.requested_predicates
    IN [k \in DOMAIN attributes \cup DOMAIN predicates |->
          { e.timestamp : e \in
              { attributes[a] : a \in DOMAIN attributes \cap {k} }
              \cup { predicates[q] : q \in DOMAIN predicates \cap {k} } }]

\* C35: in what generate_indy_proof passes to create_proof, every placed
\* credential with timestamp t has a rev_reg_id r, and the revocation states
\* hold for r an object whose one key is t in decimal; every placed
\* credential with a null timestamp lacks one of rev_reg_id, cred_rev_id and
\* tails_file, so no witness was computed for it, and when the revocation
\* states hold its registry, another credential with all three brought it.
C35_TimestampConsistency ==
    (pipeline.pc = "returned" /\ IsSome(pipeline.out.passed))
    => LET passed == Unwrap(pipeline.out.passed)
           states == passed.revoc_states_json
           attrs == pipeline.in.credentials.attrs
           placed == Placed(passed)
       IN /\ DOMAIN placed = DOMAIN attrs
          /\ \A k \in DOMAIN placed :
                /\ Cardinality(placed[k]) = 1
                /\ \A timestamp \in placed[k] :
                      IF IsSome(timestamp)
                      THEN /\ IsSome(attrs[k].rev_reg_id)
                           /\ Unwrap(attrs[k].rev_reg_id) \in DOMAIN states
                           /\ DOMAIN states[Unwrap(attrs[k].rev_reg_id)]
                                 = { Decimal(Unwrap(timestamp)) }
                      ELSE /\ ~HasRevocationData(attrs[k])
                           /\ (IsSome(attrs[k].rev_reg_id)
                               /\ Unwrap(attrs[k].rev_reg_id) \in DOMAIN states)
                                 => \E other \in DOMAIN attrs \ {k} :
                                       /\ HasRevocationData(attrs[other])
                                       /\ attrs[other].rev_reg_id = attrs[k].rev_reg_id

\* Two credentials of one registry, one among the attributes and one among
\* the predicates, carry the timestamp that is the key of the registry's
\* state, and a credential without revocation data carries none.
C35_Witness ==
    /\ pipeline.pc = "returned"
    /\ pipeline.out.err = ""
    /\ IsSome(pipeline.out.passed)
    /\ LET passed == Unwrap(pipeline.out.passed)
           attrs == pipeline.in.credentials.attrs
       IN /\ DOMAIN attrs = AttrKeys
          /\ attrs["address1_1"] = RevocableEntry
          /\ attrs["height_1"] = RevocableEntry
          /\ attrs["zip_2"] = PlainEntry
          /\ passed.requested_credentials.requested_attributes["address1_1"].timestamp = Some(1)
          /\ passed.requested_credentials.requested_predicates["height_1"].timestamp = Some(1)
          /\ passed.requested_credentials.requested_attributes["zip_2"].timestamp = None
          /\ DOMAIN passed.revoc_states_json = {"rev1"}
          /\ DOMAIN passed.revoc_states_json["rev1"] = {"1"}

\* -------------------------------------- the cache when the builder fails
\* C36 as stated: when build_rev_states_json has failed, the call has written
\* no cache entry.
C36_AtomicAsStated == rs.pc = "failed" => rs.written = {}

\* C36: when build_rev_states_json has failed on a ledger or a crypto call,
\* the cache entry of the failing credential's key is what it was when the
\* call started; when it has failed on a witness that is no JSON, that entry
\* already holds the witness if the create arm ran or the update arm got a
\* newer timestamp, and is unchanged otherwise; and the entries the call
\* wrote for the credentials processed before stay as written, equal to the
\* states of their registries in the output so far.
C36_Atomic ==
    rs.pc = "failed"
    => LET failing == KeyOf(it.cred_info)
       IN /\ HasRevocationData(it.cred_info)
          /\ rs.result \in {"LibindyError", "InvalidJson"}
          /\ rs.result = "LibindyError"
                => /\ failing \notin rs.written
                   /\ cache[failing] = it.entry
          /\ rs.result = "InvalidJson"
                => IF it.branch = "create"
                      \/ (it.branch = "update" /\ IsSome(cache[failing])
                          /\ Unwrap(cache[failing]).timestamp > Unwrap(it.entry).timestamp)
                   THEN /\ failing \in rs.written
                        /\ IsSome(cache[failing])
                        /\ Unwrap(cache[failing]).value.op = "nojson"
                   ELSE /\ failing \notin rs.written
                        /\ cache[failing] = it.entry
          /\ \A k \in rs.written \ {failing} :
                /\ IsSome(rs.rtn[k[1]])
                /\ cache[k] = rs.rtn[k[1]]

\* The call failed on a ledger or crypto call for a credential of the second
\* registry after it had written the entry of the first: the failing key is
\* as it was, the earlier one is new.
C36_Witness ==
    /\ rs.pc = "failed"
    /\ rs.result = "LibindyError"
    /\ it.cred_info.rev_reg_id = Some("rev2")
    /\ cache[<< "rev2", "cr1" >>] = it.entry
    /\ rs.written = { << "rev1", "cr1" >> }
    /\ cache[<< "rev1", "cr1" >>] = rs.rtn["rev1"]

\* ------------------------------------- build_rev_states_json, whole vectors
\* The credentials of a vector: of the first registry with either
\* cred_rev_id and with no interval, a window the cache can serve, and one it
\* cannot; one of the second registry; and credentials of the first registry
\* that lack the tails file or the cred_rev_id, and one with no revocation
\* data at all.
BuilderIntervals ==
    { None, Some([from |-> None, to |-> Some(1)]),
      Some([from |-> Some(MaxTime), to |-> Some(MaxTime)]) }
BuilderCreds ==
    { [rev_reg_id |-> Some("rev1"), cred_rev_id |-> Some(c), tails_file |-> Some("tails"),
       revocation_interval |-> i, timestamp |-> None] :
         c \in CachedCredRevIds, i \in BuilderIntervals }
    \cup { [rev_reg_id |-> Some("rev2"), cred_rev_id |-> Some("cr1"),
            tails_file |-> Some("tails"), revocation_interval |-> None,
            timestamp |-> None],
           [rev_reg_id |-> Some("rev1"), cred_rev_id |-> Some("cr1"), tails_file |-> None,
            revocation_interval |-> None, timestamp |-> None],
           [rev_reg_id |-> Some("rev1"), cred_rev_id |-> None, tails_file |-> Some("tails"),
            revocation_interval |-> None, timestamp |-> None],
           [rev_reg_id |-> None, cred_rev_id |-> None, tails_file |-> None,
            revocation_interval |-> None, timestamp |-> None] }
BuilderVectors == UNION { [1..n -> BuilderCreds] : n \in 0..MaxCreds }

BuilderInputs ==
    [credentials_identifiers : BuilderVectors, cache : PipelineCaches,
     ledger : { [r \in RevRegIds |-> a] : a \in LedgerAnswers }]

InitBuilder ==
    /\ rs = IdleCall
    /\ it = NoIteration
    /\ HANDLE_MAP = [h \in Handles |-> None]
    /\ inbox = [h \in Handles |-> << >>]
    /\ outbox = [h \in Handles |-> << >>]
    /\ last = NoCall
    /\ threads = [h \in Handles |-> IdleThread]
    /\ resolution = NoResolution
    /\ identifiers = NoPureCall
    /\ requested = NoPureCall
    /\ filtered = NoPureCall
    /\ pipeline = NoPureCall
    /\ \E in \in BuilderInputs :
          /\ cache = in.cache
          /\ built = [pc |-> "called", in |-> in,
                      out |-> [err |-> "", cache |-> in.cache, rtn |-> EmptyRtn,
                               timestamps |-> EmptyRtn,
                               creds |-> in.credentials_identifiers]]

\* line 109-210: the call returns
build_rev_states_json_call ==
    /\ built.pc = "called"
    /\ LET out == build_rev_states_json(built.in.credentials_identifiers, cache,
                                        built.in.ledger)
       IN /\ built' = [built EXCEPT !.pc = "returned", !.out = out]
          /\ cache' = out.cache
    /\ UNCHANGED << rs, it, proverVars, threads, resolution, identifiers, requested,
                    filtered, pipeline >>

NextBuilder == build_rev_states_json_call

SpecBuilder == InitBuilder /\ [][NextBuilder]_vars

\* The positions of the vector that hold a credential of the registry, and
\* those among them that hold one with its cred_rev_id and tails file too.
WithRegistry(creds, r) == { i \in DOMAIN creds : creds[i].rev_reg_id = Some(r) }
CompleteWithRegistry(creds, r) == { i \in WithRegistry(creds, r) : HasRevocationData(creds[i]) }
First(positions) == CHOOSE i \in positions : \A j \in positions : i <= j

\* What the loop body gives for the credential when it is the first of its
\* call: the witness of its registry and the cache it leaves.
Alone(cred_info, in) ==
    RevStatesIteration(cred_info, in.cache, EmptyRtn, EmptyRtn,
                       in.ledger[Unwrap(cred_info.rev_reg_id)])

\* C37 as stated: a call that succeeds returns, for each rev_reg_id of the
\* vector, one timestamp with one witness, computed from the first credential
\* that has the rev_reg_id, and every credential with the rev_reg_id is
\* stamped with that timestamp.
C37_OneWitnessAsStated ==
    (built.pc = "returned" /\ built.out.err = "")
    => \A r \in RevRegIds :
          LET creds == built.in.credentials_identifiers
              positions == WithRegistry(creds, r)
          IN positions # {}
             => /\ IsSome(built.out.rtn[r])
                /\ HasRevocationData(creds[First(positions)])
                /\ built.out.rtn[r] = Alone(creds[First(positions)], built.in).rtn[r]
                /\ \A i \in positions :
                      built.out.creds[i].timestamp
                         = Some(Unwrap(built.out.rtn[r]).timestamp)

\* C37: a call that succeeds returns, for each rev_reg_id that some
\* credential of the vector has together with a cred_rev_id and a tails
\* file, one timestamp with one witness, computed from the first such
\* credential (its cred_rev_id, tails file and interval), and nothing for any
\* other rev_reg_id; every such credential of the registry is stamped with
\* that timestamp whatever its own cred_rev_id and interval; every other
\* credential is left unstamped; and of the cache entries of the registry
\* only the one of the first such credential's key can have been written.
C37_OneWitness ==
    (built.pc = "returned" /\ built.out.err = "")
    => LET creds == built.in.credentials_identifiers
           out == built.out
       IN /\ \A r \in RevRegIds :
                LET positions == CompleteWithRegistry(creds, r)
                IN IF positions = {}
                   THEN /\ out.rtn[r] = None
                        /\ \A k \in CacheKeys : k[1] = r => cache[k] = built.in.cache[k]
                   ELSE LET first == creds[First(positions)]
                        IN /\ out.rtn[r] = Alone(first, built.in).rtn[r]
                           /\ IsSome(out.rtn[r])
                           /\ \A i \in positions :
                                 out.creds[i].timestamp
                                    = Some(Unwrap(out.rtn[r]).timestamp)
                           /\ \A k \in CacheKeys :
                                 k[1] = r
                                 => cache[k] = IF k = KeyOf(first)
                                               THEN Alone(first, built.in).cache[k]
                                               ELSE built.in.cache[k]
          /\ \A i \in DOMAIN creds :
                ~HasRevocationData(creds[i]) => out.creds[i].timestamp = None

\* A credential of the first registry without a tails file came first and
\* stayed unstamped; the witness was computed from the second credential,
\* whose key was written.
C37_Witness ==
    /\ built.pc = "returned"
    /\ built.out.err = ""
    /\ Len(built.in.credentials_identifiers) = 2
    /\ built.in.credentials_identifiers[1].rev_reg_id = Some("rev1")
    /\ built.in.credentials_identifiers[1].tails_file = None
    /\ built.in.credentials_identifiers[2].rev_reg_id = Some("rev1")
    /\ built.in.credentials_identifiers[2].cred_rev_id = Some("cr2")
    /\ HasRevocationData(built.in.credentials_identifiers[2])
    /\ built.out.creds[1].timestamp = None
    /\ IsSome(built.out.creds[2].timestamp)
    /\ cache[<< "rev1", "cr2" >>] = built.out.rtn["rev1"]
    /\ cache[<< "rev1", "cr1" >>] = built.in.cache[<< "rev1", "cr1" >>]

\* ------------------------------------------------- the life of a handle
\* line 410-412
is_valid_handle(handle) == IsSome(HANDLE_MAP[handle])

\* line 410-412: the call returns
is_valid_handle_call(handle) ==
    /\ last' = [NoCall EXCEPT !.op = "is_valid_handle", !.handle = handle,
                              !.result = IF is_valid_handle(handle) THEN "true" ELSE "false",
                              !.before = HANDLE_MAP[handle]]
    /\ UNCHANGED << revVars, callVars, HANDLE_MAP, inbox, outbox >>

\* A variant of release that empties the handle map, as release_all does.
release_draining(handle) ==
    /\ IF IsNone(HANDLE_MAP[handle])
       THEN /\ last' = [NoCall EXCEPT !.op = "release", !.handle = handle,
                                      !.result = "InvalidDisclosedProofHandle"]
            /\ UNCHANGED HANDLE_MAP
       ELSE /\ HANDLE_MAP' = [h \in Handles |-> None]
            /\ last' = Returned("release", handle, "", HANDLE_MAP[handle], None, << >>)
    /\ UNCHANGED << revVars, callVars, inbox, outbox >>

\* line 349-351: ObjectCache::release drops the object of the handle; its
\* InvalidHandle for a handle without object goes through handle_err
\* (line 280-286)
release(handle) ==
    /\ IF IsNone(HANDLE_MAP[handle])
       THEN /\ last' = [NoCall EXCEPT !.op = "release", !.handle = handle,
                                      !.result = "InvalidDisclosedProofHandle"]
            /\ UNCHANGED HANDLE_MAP
       ELSE /\ HANDLE_MAP' = [HANDLE_MAP EXCEPT ![handle] = None]
            /\ last' = Returned("release", handle, "", HANDLE_MAP[handle], None, << >>)
    /\ UNCHANGED << revVars, callVars, inbox, outbox >>

\* line 319-323: the call returns
get_state_call(handle) ==
    /\ last' = [NoCall EXCEPT !.op = "get_state", !.handle = handle,
                              !.result = IF get_state(handle).err = "" THEN "Ok"
                                         ELSE get_state(handle).err,
                              !.code = get_state(handle).code,
                              !.before = HANDLE_MAP[handle]]
    /\ UNCHANGED << revVars, callVars, HANDLE_MAP, inbox, outbox >>

\* line 477-481: the call returns
get_presentation_status_call(handle) ==
    /\ last' = [NoCall EXCEPT !.op = "get_presentation_status", !.handle = handle,
                              !.result = IF get_presentation_status(handle).err = ""
                                         THEN "Ok"
                                         ELSE get_presentation_status(handle).err,
                              !.code = get_presentation_status(handle).code,
                              !.before = HANDLE_MAP[handle]]
    /\ UNCHANGED << revVars, callVars, HANDLE_MAP, inbox, outbox >>

\* line 471-475: the call returns
get_source_id_call(handle) ==
    /\ last' = [NoCall EXCEPT !.op = "get_source_id", !.handle = handle,
                              !.result = IF get_source_id(handle).err = "" THEN "Ok"
                                         ELSE get_source_id(handle).err,
                              !.before = HANDLE_MAP[handle],
                              !.data = IF get_source_id(handle).err = ""
                                       THEN Some(get_source_id(handle).source_id)
                                       ELSE None]
    /\ UNCHANGED << revVars, callVars, HANDLE_MAP, inbox, outbox >>

\* line 357-361: Prover::generate_presentation_msg runs on a shared borrow of
\* the object; whether it has a message to give is the Prover's answer.
generate_proof_msg(handle, ready) ==
    /\ last' = IF IsNone(HANDLE_MAP[handle])
               THEN InvalidHandle("generate_proof_msg", handle)
               ELSE [Returned("generate_proof_msg", handle,
                              IF ready THEN "" ELSE "InvalidState",
                              HANDLE_MAP[handle], None, << >>)
                        EXCEPT !.data = IF ready THEN Some("Presentation") ELSE None]
    /\ UNCHANGED << revVars, callVars, HANDLE_MAP, inbox, outbox >>

\* A variant of generate_reject_proof_msg that declines the request.
generate_reject_proof_msg_declining(handle) ==
    /\ IF IsNone(HANDLE_MAP[handle])
       THEN /\ last' = InvalidHandle("generate_reject_proof_msg", handle)
            /\ UNCHANGED HANDLE_MAP
       ELSE /\ HANDLE_MAP' = [HANDLE_MAP EXCEPT ![handle] =
                                 Some([Unwrap(@) EXCEPT !.state = "Declined",
                                                        !.status = "Declined"])]
            /\ last' = Returned("generate_reject_proof_msg", handle, "ActionNotSupported",
                                HANDLE_MAP[handle], None, << >>)
    /\ UNCHANGED << revVars, callVars, inbox, outbox >>

\* line 372-377: the closure fails whatever the object is
generate_reject_proof_msg(handle) ==
    /\ IF IsNone(HANDLE_MAP[handle])
       THEN /\ last' = InvalidHandle("generate_reject_proof_msg", handle)
            /\ UNCHANGED HANDLE_MAP
       ELSE /\ HANDLE_MAP' = HANDLE_MAP
            /\ last' = Returned("generate_reject_proof_msg", handle, "ActionNotSupported",
                                HANDLE_MAP[handle], None, << >>)
    /\ UNCHANGED << revVars, callVars, inbox, outbox >>

InitHandles == Init

\* Two Provers can be live at once.  A handle whose Prover has transmitted
\* is not handed out again.
NextHandles ==
    \/ \E source_id \in SourceIds, handle \in { h \in Handles : outbox[h] = << >> } :
          create_proof(source_id, TRUE, handle)
    \/ \E handle \in Handles :
          generate_proof(handle, PlainSelection, PlainSelfAttested,
                         [r \in RevRegIds |-> PlainAnswer], "none")
    \/ \E handle \in Handles : send_proof(handle, TRUE)
    \/ \E handle \in Handles :
          \E in \in InputsOf(handle, { << Some("no"), None >>, << None, None >> },
                             << Some("no"), None >>) :
          decline_presentation_request(handle, in[1], in[2])
    \/ \E handle \in Handles : \E message \in InputsOf(handle, GivenMessages, None) :
          update_state(handle, message, TRUE)
    \/ \E handle \in Handles : release(handle)
    \/ \E handle \in Handles : is_valid_handle_call(handle)
    \/ \E handle \in Handles : get_state_call(handle)
    \/ \E handle \in Handles : get_presentation_status_call(handle)
    \/ \E handle \in Handles : get_source_id_call(handle)
    \/ \E handle \in Handles : to_string_call(handle)
    \/ \E handle \in Handles : \E ready \in InputsOf(handle, BOOLEAN, TRUE) :
          generate_proof_msg(handle, ready)
    \/ \E handle \in Handles : generate_reject_proof_msg(handle)

SpecHandles == InitHandles /\ [][NextHandles]_vars

\* ---------------------------------------------------------------- C38
HandleKeyedOps ==
    { "get_state", "update_state", "generate_proof", "send_proof",
      "decline_presentation_request", "to_string", "get_source_id",
      "get_presentation_status" }

\* Every step of the handle specification records the call it made in last.
C38_Step ==
    /\ \A handle \in Handles :
          release(handle) =>
             IF is_valid_handle(handle)
             THEN /\ last'.result = "Ok"
                  /\ ~ is_valid_handle(handle)'
                  /\ \A other \in Handles \ {handle} :
                        HANDLE_MAP'[other] = HANDLE_MAP[other]
             ELSE /\ last'.result = "InvalidDisclosedProofHandle"
                  /\ HANDLE_MAP' = HANDLE_MAP
    /\ \A handle \in Handles :
          (/\ ~ is_valid_handle(handle)
           /\ last'.op \in HandleKeyedOps
           /\ last'.handle = handle)
          => /\ last'.result \notin {"Ok", ""}
             /\ HANDLE_MAP' = HANDLE_MAP
             /\ cache' = cache
             /\ outbox' = outbox
             /\ last'.op = "get_source_id" => last'.result = "InvalidDisclosedProofHandle"

\* C38: a successful release(h) leaves is_valid_handle(h) false and every
\* other handle as it was; release and get_source_id on a handle without
\* Prover fail with InvalidDisclosedProofHandle; every handle-keyed operation
\* on such a handle fails and neither creates nor changes a Prover.
C38_HandleLifecycle == [][C38_Step]_vars

\* An operation failed on a handle whose Prover had sent its presentation and
\* was released, while the Prover of the other handle is live.
C38_Witness ==
    /\ last.op = "send_proof"
    /\ last.result = "InvalidHandle"
    /\ outbox[last.handle] # << >>
    /\ ~ is_valid_handle(last.handle)
    /\ \E other \in Handles \ {last.handle} : is_valid_handle(other)

\* ---------------------------------------------------------------- C39
C39_Step ==
    \A handle \in Handles :
       (\/ get_state_call(handle)
        \/ get_presentation_status_call(handle)
        \/ get_source_id_call(handle)
        \/ to_string_call(handle)
        \/ \E ready \in BOOLEAN : generate_proof_msg(handle, ready)
        \/ generate_reject_proof_msg(handle))
       => /\ HANDLE_MAP' = HANDLE_MAP
          /\ cache' = cache
          /\ (last'.op = "generate_reject_proof_msg" /\ is_valid_handle(handle))
                => last'.result = "ActionNotSupported"

\* C39: get_state, get_presentation_status, get_source_id, to_string,
\* generate_proof_msg and generate_reject_proof_msg leave every Prover (its
\* state, request, proof and status), the set of registered handles and the
\* revocation-state cache unchanged; generate_reject_proof_msg on a
\* registered handle fails with ActionNotSupported.
C39_ReadOnly == [][C39_Step]_vars

\* generate_reject_proof_msg has failed on a Prover that holds a proof, with a
\* cache that holds an entry.
C39_Witness ==
    /\ last.op = "generate_reject_proof_msg"
    /\ last.result = "ActionNotSupported"
    /\ is_valid_handle(last.handle)
    /\ HANDLE_MAP[last.handle] = last.before
    /\ Unwrap(HANDLE_MAP[last.handle]).state = "PresentationPrepared"
    /\ cache # EmptyCache

====
